---- MODULE Spec2Model ----
(***************************************************************************)
(* Flare chess engine: position representation, move generation,          *)
(* make/undo, FEN loading, transposition table and search control.        *)
(*                                                                         *)
(* Bitboards are modelled as sets of squares (bit i set <=> i in the set). *)
(* A Zobrist hash is modelled as the set of table entries whose XOR it is  *)
(* (XOR = symmetric difference), so two hashes are equal in the model only *)
(* if they are XORs of the same entries.                                   *)
(***************************************************************************)
EXTENDS Integers, Sequences, FiniteSets, TLC

(***************************************************************************)
(* Board primitives (types.h)                                              *)
(***************************************************************************)
kFileCount == 8
kRankCount == 8
kSquareCount == 64
kNoSquare == 64
kWhite == 0
kBlack == 1
kNone == 0
kPawn == 1
kKnight == 2
kBishop == 3
kRook == 4
kQueen == 5
kKing == 6
kWhiteKingSideCastle == 1
kWhiteQueenSideCastle == 2
kBlackKingSideCastle == 4
kBlackQueenSideCastle == 8
kAllCastlingRights == 15

Squares == 0 .. (kSquareCount - 1)
Colors == {kWhite, kBlack}
PieceTypes == kNone .. kKing

FileOf(square) == square % 8
RankOf(square) == square \div 8
MakeSquare(file, rank) == rank * 8 + file
SquareBit(square) == {square}
HasBit(bitboard, square) == square \in bitboard
OppositeColor(color) == 1 - color
MakePiece(color, type) == IF type = kNone THEN 0 ELSE color * 6 + type
ColorFromPiece(piece) == IF piece >= 7 THEN kBlack ELSE kWhite
PieceTypeFromPiece(piece) == IF piece = 0 THEN kNone ELSE ((piece - 1) % 6) + 1
HasRight(rights, bit) == (rights \div bit) % 2 = 1
ClearRight(rights, bit) == IF HasRight(rights, bit) THEN rights - bit ELSE rights
SetRight(rights, bit) == IF HasRight(rights, bit) THEN rights ELSE rights + bit

kA1 == 0
kB1 == 1
kC1 == 2
kD1 == 3
kE1 == 4
kF1 == 5
kG1 == 6
kH1 == 7
kA8 == 56
kB8 == 57
kC8 == 58
kD8 == 59
kE8 == 60
kF8 == 61
kG8 == 62
kH8 == 63
kE4 == 28

kWhitePawn == 1
kWhiteKnight == 2
kWhiteBishop == 3
kWhiteRook == 4
kWhiteQueen == 5
kWhiteKing == 6
kBlackPawn == 7
kBlackKnight == 8
kBlackBishop == 9
kBlackRook == 10
kBlackQueen == 11
kBlackKing == 12

RECURSIVE Concat(_)
Concat(seqs) ==
    IF seqs = <<>> THEN <<>> ELSE Head(seqs) \o Concat(Tail(seqs))

(* squares of a bitboard in PopLsb order (lowest bit first) *)
RECURSIVE PopLsbOrder(_)
PopLsbOrder(bitboard) ==
    IF bitboard = {} THEN <<>>
    ELSE LET index == CHOOSE s \in bitboard : \A t \in bitboard : s <= t
         IN <<index>> \o PopLsbOrder(bitboard \ {index})

LsbIndex(bitboard) ==
    IF bitboard = {} THEN -1
    ELSE CHOOSE s \in bitboard : \A t \in bitboard : s <= t

(***************************************************************************)
(* Move encoding (move.h)                                                  *)
(***************************************************************************)
kNoMove == 0
kFlagNone == 0
kFlagPromotion == 1
kFlagEnPassant == 2
kFlagCastle == 3
kFlagDoublePush == 4

EncodeMove(from, to, piece, capture, promotion, flag) ==
    from + to * 64 + piece * 4096 + capture * 65536 + promotion * 1048576
        + flag * 16777216
FromSquare(move) == move % 64
ToSquare(move) == (move \div 64) % 64
MovedPiece(move) == (move \div 4096) % 16
CapturedPiece(move) == (move \div 65536) % 16
PromotionPiece(move) == (move \div 1048576) % 16
MoveFlagOf(move) == (move \div 16777216) % 16

(***************************************************************************)
(* Zobrist keys (zobrist.cpp): every table entry is a distinct key         *)
(***************************************************************************)
ZobristPieceSquare(piece, square) == piece * 64 + square
ZobristCastling(rights) == 1000 + rights
ZobristEnPassant(file) == 2000 + file
ZobristSideToMove == 3000
Xor(a, b) == (a \ b) \cup (b \ a)

(***************************************************************************)
(* Attack generation (attack.cpp)                                          *)
(***************************************************************************)
kKnightOffsets ==
    << <<1, 2>>, <<2, 1>>, <<2, -1>>, <<1, -2>>,
       <<-1, -2>>, <<-2, -1>>, <<-2, 1>>, <<-1, 2>> >>
kKingOffsets ==
    << <<1, 1>>, <<1, 0>>, <<1, -1>>, <<0, -1>>,
       <<-1, -1>>, <<-1, 0>>, <<-1, 1>>, <<0, 1>> >>

OnBoard(file, rank) ==
    file >= 0 /\ file < kFileCount /\ rank >= 0 /\ rank < kRankCount

RECURSIVE RayWalk(_, _, _, _, _)
RayWalk(file, rank, occupancy, file_delta, rank_delta) ==
    IF ~OnBoard(file, rank) THEN {}
    ELSE LET target == MakeSquare(file, rank) IN
         IF target \in occupancy THEN {target}
         ELSE {target} \cup RayWalk(file + file_delta, rank + rank_delta,
                                    occupancy, file_delta, rank_delta)

RayAttacks(square, occupancy, file_delta, rank_delta) ==
    RayWalk(FileOf(square) + file_delta, RankOf(square) + rank_delta,
            occupancy, file_delta, rank_delta)

PawnAttacks(color, square) ==
    LET file == FileOf(square)
        rank == RankOf(square)
        forward == IF color = kWhite THEN 1 ELSE -1
        target_rank == rank + forward
    IN IF target_rank < 0 \/ target_rank >= kRankCount THEN {}
       ELSE (IF file > 0 THEN SquareBit(MakeSquare(file - 1, target_rank)) ELSE {})
            \cup (IF file < kFileCount - 1
                  THEN SquareBit(MakeSquare(file + 1, target_rank)) ELSE {})

OffsetAttacks(square, offsets) ==
    { MakeSquare(FileOf(square) + offsets[i][1], RankOf(square) + offsets[i][2]) :
        i \in { j \in 1 .. Len(offsets) :
                  OnBoard(FileOf(square) + offsets[j][1], RankOf(square) + offsets[j][2]) } }

KnightAttacks(square) == OffsetAttacks(square, kKnightOffsets)
KingAttacks(square) == OffsetAttacks(square, kKingOffsets)

BishopAttacks(square, occupancy) ==
    RayAttacks(square, occupancy, 1, 1) \cup RayAttacks(square, occupancy, 1, -1)
    \cup RayAttacks(square, occupancy, -1, 1) \cup RayAttacks(square, occupancy, -1, -1)

RookAttacks(square, occupancy) ==
    RayAttacks(square, occupancy, 1, 0) \cup RayAttacks(square, occupancy, -1, 0)
    \cup RayAttacks(square, occupancy, 0, 1) \cup RayAttacks(square, occupancy, 0, -1)

QueenAttacks(square, occupancy) ==
    BishopAttacks(square, occupancy) \cup RookAttacks(square, occupancy)

IsSquareAttacked(position, square, by_color) ==
    LET occupancy == position.all_occupancy_bb
        bb == position.piece_bb[by_color]
    IN \/ PawnAttacks(OppositeColor(by_color), square) \cap bb[kPawn] # {}
       \/ KnightAttacks(square) \cap bb[kKnight] # {}
       \/ KingAttacks(square) \cap bb[kKing] # {}
       \/ BishopAttacks(square, occupancy) \cap (bb[kBishop] \cup bb[kQueen]) # {}
       \/ RookAttacks(square, occupancy) \cap (bb[kRook] \cup bb[kQueen]) # {}

(***************************************************************************)
(* Position (position.cpp)                                                 *)
(***************************************************************************)
EmptyPieceBb == [c \in Colors |-> [t \in PieceTypes |-> {}]]

HashOf(board, castling_rights, en_passant_square, side_to_move) ==
    LET pieces == { ZobristPieceSquare(board[s], s) : s \in { q \in Squares : board[q] # 0 } }
        h1 == Xor(pieces, {ZobristCastling(castling_rights)})
        h2 == IF en_passant_square # kNoSquare
              THEN Xor(h1, {ZobristEnPassant(FileOf(en_passant_square))}) ELSE h1
    IN IF side_to_move = kBlack THEN Xor(h2, {ZobristSideToMove}) ELSE h2

ComputeHash(position) ==
    [position EXCEPT !.hash = HashOf(position.board, position.castling_rights,
                                      position.en_passant_square, position.side_to_move)]

Clear(position) ==
    ComputeHash([board |-> [s \in Squares |-> 0],
                 piece_bb |-> EmptyPieceBb,
                 occupancy_bb |-> [c \in Colors |-> {}],
                 all_occupancy_bb |-> {},
                 side_to_move |-> kWhite,
                 castling_rights |-> 0,
                 en_passant_square |-> kNoSquare,
                 halfmove_clock |-> 0,
                 fullmove_number |-> 1,
                 hash |-> {}])

RebuildBitboards(position) ==
    LET b == position.board
        occ(c) == { s \in Squares : b[s] # 0 /\ ColorFromPiece(b[s]) = c }
    IN ComputeHash([position EXCEPT
           !.piece_bb = [c \in Colors |-> [t \in PieceTypes |->
                           IF t = kNone THEN {}
                           ELSE { s \in Squares : b[s] = MakePiece(c, t) }]],
           !.occupancy_bb = [c \in Colors |-> occ(c)],
           !.all_occupancy_bb = { s \in Squares : b[s] # 0 }])

kBackRank == <<kRook, kKnight, kBishop, kQueen, kKing, kBishop, kKnight, kRook>>

SetStartPosition(position) ==
    LET cleared == Clear(position)
        start_board == [s \in Squares |->
            CASE RankOf(s) = 0 -> MakePiece(kWhite, kBackRank[FileOf(s) + 1])
              [] RankOf(s) = 1 -> kWhitePawn
              [] RankOf(s) = 6 -> kBlackPawn
              [] RankOf(s) = 7 -> MakePiece(kBlack, kBackRank[FileOf(s) + 1])
              [] OTHER -> 0]
    IN RebuildBitboards([cleared EXCEPT !.board = start_board,
                                        !.castling_rights = kAllCastlingRights,
                                        !.side_to_move = kWhite,
                                        !.halfmove_clock = 0,
                                        !.fullmove_number = 1])

PlacePiece(position, piece, square) ==
    IF piece = 0 THEN [position EXCEPT !.board[square] = piece]
    ELSE LET color == ColorFromPiece(piece)
             type == PieceTypeFromPiece(piece)
         IN [position EXCEPT !.board[square] = piece,
                             !.piece_bb[color][type] = @ \cup SquareBit(square),
                             !.occupancy_bb[color] = @ \cup SquareBit(square),
                             !.all_occupancy_bb = @ \cup SquareBit(square)]

RemovePiece(position, square) ==
    LET piece == position.board[square] IN
    IF piece = 0 THEN position
    ELSE LET color == ColorFromPiece(piece)
             type == PieceTypeFromPiece(piece)
         IN [position EXCEPT !.board[square] = 0,
                             !.piece_bb[color][type] = @ \ SquareBit(square),
                             !.occupancy_bb[color] = @ \ SquareBit(square),
                             !.all_occupancy_bb = @ \ SquareBit(square)]

MovePiece(position, from, to) ==
    LET piece == position.board[from] IN
    PlacePiece(RemovePiece(position, from), piece, to)

KingSquare(position, color) ==
    LET index == LsbIndex(position.piece_bb[color][kKing]) IN
    IF index < 0 THEN kNoSquare ELSE index

(***************************************************************************)
(* Move generation (movegen.cpp)                                           *)
(***************************************************************************)
kPromotionTypes == <<kQueen, kRook, kBishop, kKnight>>

AddPromotionMoves(from, to, capture) ==
    [i \in 1 .. 4 |-> EncodeMove(from, to, kPawn, capture, kPromotionTypes[i], kFlagPromotion)]

(* the moves the loop body of GeneratePawnMoves adds for the pawn on from *)
PawnMovesFrom(position, color, from) ==
    LET forward == IF color = kWhite THEN 1 ELSE -1
        start_rank == IF color = kWhite THEN 1 ELSE 6
        promotion_rank == IF color = kWhite THEN 6 ELSE 1
        file == FileOf(from)
        rank == RankOf(from)
        next_rank == rank + forward
        one_step == MakeSquare(file, next_rank)
        two_step == MakeSquare(file, rank + 2 * forward)
        pushes ==
            IF HasBit(position.all_occupancy_bb, one_step) THEN <<>>
            ELSE IF rank = promotion_rank THEN AddPromotionMoves(from, one_step, kNone)
            ELSE <<EncodeMove(from, one_step, kPawn, kNone, kNone, kFlagNone)>>
                 \o (IF rank = start_rank /\ ~HasBit(position.all_occupancy_bb, two_step)
                     THEN <<EncodeMove(from, two_step, kPawn, kNone, kNone, kFlagDoublePush)>>
                     ELSE <<>>)
        captures(file_offset) ==
            LET target_file == file + file_offset
                target == MakeSquare(target_file, next_rank)
                target_piece == position.board[target]
            IN IF target_file < 0 \/ target_file >= kFileCount THEN <<>>
               ELSE (IF target_piece # 0 /\ ColorFromPiece(target_piece) = OppositeColor(color)
                     THEN IF rank = promotion_rank
                          THEN AddPromotionMoves(from, target, PieceTypeFromPiece(target_piece))
                          ELSE <<EncodeMove(from, target, kPawn,
                                            PieceTypeFromPiece(target_piece), kNone, kFlagNone)>>
                     ELSE <<>>)
                    \o (IF position.en_passant_square = target
                        THEN <<EncodeMove(from, target, kPawn, kPawn, kNone, kFlagEnPassant)>>
                        ELSE <<>>)
    IN IF next_rank >= 0 /\ next_rank < kRankCount
       THEN pushes \o captures(-1) \o captures(1)
       ELSE <<>>

GeneratePawnMoves(position, color) ==
    LET pawns == PopLsbOrder(position.piece_bb[color][kPawn]) IN
    Concat([i \in 1 .. Len(pawns) |-> PawnMovesFrom(position, color, pawns[i])])

(* the moves of one non-pawn piece on from towards every square of attacks *)
PieceMovesFrom(position, color, piece_type, from, attacks) ==
    LET targets == PopLsbOrder(attacks) IN
    [i \in 1 .. Len(targets) |->
        LET target_piece == position.board[targets[i]]
            capture == IF target_piece # 0 /\ ColorFromPiece(target_piece) # color
                       THEN PieceTypeFromPiece(target_piece) ELSE kNone
        IN EncodeMove(from, targets[i], piece_type, capture, kNone, kFlagNone)]

GenerateKnightMoves(position, color) ==
    LET knights == PopLsbOrder(position.piece_bb[color][kKnight])
        own_occ == position.occupancy_bb[color]
    IN Concat([i \in 1 .. Len(knights) |->
                 PieceMovesFrom(position, color, kKnight, knights[i],
                                KnightAttacks(knights[i]) \ own_occ)])

GenerateSlidingMoves(position, color, piece_type) ==
    LET own_occ == position.occupancy_bb[color]
        pieces == PopLsbOrder(position.piece_bb[color][piece_type])
        attacks(from) ==
            CASE piece_type = kBishop -> BishopAttacks(from, position.all_occupancy_bb)
              [] piece_type = kRook -> RookAttacks(from, position.all_occupancy_bb)
              [] piece_type = kQueen -> QueenAttacks(from, position.all_occupancy_bb)
              [] OTHER -> {}
    IN Concat([i \in 1 .. Len(pieces) |->
                 PieceMovesFrom(position, color, piece_type, pieces[i],
                                attacks(pieces[i]) \ own_occ)])

(* one castling candidate: right set, path squares empty, rook on its corner,
   transit squares not attacked *)
(* the castle test without the attack test on the king's path *)
CastleMoveUnchecked(position, enemy, right, empty_squares, rook_square, rook, safe_squares, king_from, king_to) ==
    IF /\ HasRight(position.castling_rights, right)
       /\ \A s \in empty_squares : position.board[s] = 0
       /\ position.board[rook_square] = rook
    THEN <<EncodeMove(king_from, king_to, kKing, kNone, kNone, kFlagCastle)>>
    ELSE <<>>

(* one castle test of GenerateKingMoves, reached when the king stands on its
   home square and is not in check *)
CastleMove(position, enemy, right, empty_squares, rook_square, rook, safe_squares, king_from, king_to) ==
    IF /\ HasRight(position.castling_rights, right)
       /\ \A s \in empty_squares : position.board[s] = 0
       /\ position.board[rook_square] = rook
       /\ \A s \in safe_squares : ~IsSquareAttacked(position, s, enemy)
    THEN <<EncodeMove(king_from, king_to, kKing, kNone, kNone, kFlagCastle)>>
    ELSE <<>>

GenerateKingMoves(position, color) ==
    LET own_occ == position.occupancy_bb[color]
        king_square == KingSquare(position, color)
        enemy == OppositeColor(color)
        steps == PieceMovesFrom(position, color, kKing, king_square,
                                KingAttacks(king_square) \ own_occ)
        in_check == IsSquareAttacked(position, king_square, enemy)
    IN IF king_square = kNoSquare THEN <<>>
       ELSE IF in_check THEN steps
       ELSE IF color = kWhite /\ king_square = kE1
       THEN steps
            \o CastleMove(position, enemy, kWhiteKingSideCastle, {kF1, kG1}, kH1,
                          kWhiteRook, {kF1, kG1}, kE1, kG1)
            \o CastleMove(position, enemy, kWhiteQueenSideCastle, {kD1, kC1, kB1}, kA1,
                          kWhiteRook, {kD1, kC1}, kE1, kC1)
       ELSE IF color = kBlack /\ king_square = kE8
       THEN steps
            \o CastleMove(position, enemy, kBlackKingSideCastle, {kF8, kG8}, kH8,
                          kBlackRook, {kF8, kG8}, kE8, kG8)
            \o CastleMove(position, enemy, kBlackQueenSideCastle, {kD8, kC8, kB8}, kA8,
                          kBlackRook, {kD8, kC8}, kE8, kC8)
       ELSE steps

GeneratePseudoLegalMoves(position) ==
    LET color == position.side_to_move IN
    GeneratePawnMoves(position, color)
    \o GenerateKnightMoves(position, color)
    \o GenerateSlidingMoves(position, color, kBishop)
    \o GenerateSlidingMoves(position, color, kRook)
    \o GenerateSlidingMoves(position, color, kQueen)
    \o GenerateKingMoves(position, color)

(* the rights update without the part for a rook captured on its corner *)
UpdateCastlingRightsMoverOnly(rights, from, to, moved_piece, captured_piece, captured_square) ==
    CASE moved_piece = kWhiteKing ->
           ClearRight(ClearRight(rights, kWhiteKingSideCastle), kWhiteQueenSideCastle)
      [] moved_piece = kBlackKing ->
           ClearRight(ClearRight(rights, kBlackKingSideCastle), kBlackQueenSideCastle)
      [] moved_piece = kWhiteRook /\ from = kA1 -> ClearRight(rights, kWhiteQueenSideCastle)
      [] moved_piece = kWhiteRook /\ from = kH1 -> ClearRight(rights, kWhiteKingSideCastle)
      [] moved_piece = kBlackRook /\ from = kA8 -> ClearRight(rights, kBlackQueenSideCastle)
      [] moved_piece = kBlackRook /\ from = kH8 -> ClearRight(rights, kBlackKingSideCastle)
      [] OTHER -> rights

UpdateCastlingRights(rights, from, to, moved_piece, captured_piece, captured_square) ==
    LET r1 == CASE moved_piece = kWhiteKing ->
                     ClearRight(ClearRight(rights, kWhiteKingSideCastle), kWhiteQueenSideCastle)
                [] moved_piece = kBlackKing ->
                     ClearRight(ClearRight(rights, kBlackKingSideCastle), kBlackQueenSideCastle)
                [] moved_piece = kWhiteRook /\ from = kA1 ->
                     ClearRight(rights, kWhiteQueenSideCastle)
                [] moved_piece = kWhiteRook /\ from = kH1 ->
                     ClearRight(rights, kWhiteKingSideCastle)
                [] moved_piece = kBlackRook /\ from = kA8 ->
                     ClearRight(rights, kBlackQueenSideCastle)
                [] moved_piece = kBlackRook /\ from = kH8 ->
                     ClearRight(rights, kBlackKingSideCastle)
                [] OTHER -> rights
    IN CASE captured_piece = kWhiteRook /\ captured_square = kA1 ->
              ClearRight(r1, kWhiteQueenSideCastle)
         [] captured_piece = kWhiteRook /\ captured_square = kH1 ->
              ClearRight(r1, kWhiteKingSideCastle)
         [] captured_piece = kBlackRook /\ captured_square = kA8 ->
              ClearRight(r1, kBlackQueenSideCastle)
         [] captured_piece = kBlackRook /\ captured_square = kH8 ->
              ClearRight(r1, kBlackKingSideCastle)
         [] OTHER -> r1

(* the en-passant square set after every double push *)
EnPassantAfterAnyDoublePush(position, flag, from, us) ==
    IF flag = kFlagDoublePush
    THEN MakeSquare(FileOf(from), RankOf(from) + (IF us = kWhite THEN 1 ELSE -1))
    ELSE kNoSquare

(* the en-passant square MakeMove leaves: set only after a double push that an
   enemy pawn attacks *)
EnPassantAfter(position, flag, from, us) ==
    IF flag = kFlagDoublePush
    THEN LET passed_rank == RankOf(from) + (IF us = kWhite THEN 1 ELSE -1)
             ep_square == MakeSquare(FileOf(from), passed_rank)
             enemy == OppositeColor(us)
             enemy_pawns == position.piece_bb[enemy][kPawn]
         IN IF PawnAttacks(OppositeColor(enemy), ep_square) \cap enemy_pawns # {}
            THEN ep_square ELSE kNoSquare
    ELSE kNoSquare

(* the rook relocation of a castle move, and its inverse *)
CastleRook(position, us, to, undo) ==
    LET hop(a, b) == IF undo THEN MovePiece(position, b, a) ELSE MovePiece(position, a, b)
    IN IF us = kWhite
       THEN (IF to = kG1 THEN hop(kH1, kF1)
             ELSE IF to = kC1 THEN hop(kA1, kD1) ELSE position)
       ELSE (IF to = kG8 THEN hop(kH8, kF8)
             ELSE IF to = kC8 THEN hop(kA8, kD8) ELSE position)

(* the halfmove clock is reset by pawn moves only *)
HalfmoveAfterPawnOnly(clock, moved_type, is_capture) ==
    IF moved_type = kPawn THEN 0 ELSE (clock + 1) % 65536

(* the halfmove clock after a move: ++position.halfmove_clock_ on a
   std::uint16_t *)
HalfmoveAfter(clock, moved_type, is_capture) ==
    IF moved_type = kPawn \/ is_capture THEN 0 ELSE (clock + 1) % 65536

(* returns [pos |-> the position after the move, state |-> the MoveState] *)
MakeMove(position, move) ==
    LET from == FromSquare(move)
        to == ToSquare(move)
        flag == MoveFlagOf(move)
        moved_type == MovedPiece(move)
        moved_piece == position.board[from]
        us == position.side_to_move
        ep_capture_square ==
            MakeSquare(FileOf(to), RankOf(to) + (IF us = kWhite THEN -1 ELSE 1))
        captured_square ==
            IF flag = kFlagEnPassant THEN ep_capture_square
            ELSE IF position.board[to] # 0 THEN to ELSE kNoSquare
        captured_piece ==
            IF captured_square = kNoSquare THEN 0 ELSE position.board[captured_square]
        state == [captured_piece |-> captured_piece,
                  captured_square |-> captured_square,
                  castling_rights |-> position.castling_rights,
                  en_passant_square |-> position.en_passant_square,
                  halfmove_clock |-> position.halfmove_clock,
                  fullmove_number |-> position.fullmove_number,
                  side_to_move |-> position.side_to_move]
        p1 == [position EXCEPT !.en_passant_square = kNoSquare]
        p2 == IF captured_square = kNoSquare THEN p1 ELSE RemovePiece(p1, captured_square)
        p3 == IF flag = kFlagPromotion
              THEN PlacePiece(RemovePiece(p2, from), MakePiece(us, PromotionPiece(move)), to)
              ELSE MovePiece(p2, from, to)
        p4 == IF flag = kFlagCastle THEN CastleRook(p3, us, to, FALSE) ELSE p3
        is_capture == captured_piece # 0
        p5 == [p4 EXCEPT
                 !.castling_rights = UpdateCastlingRights(p4.castling_rights, from, to,
                                        moved_piece, captured_piece, captured_square),
                 !.en_passant_square = EnPassantAfter(p4, flag, from, us),
                 !.halfmove_clock = HalfmoveAfter(@, moved_type, is_capture),
                 !.fullmove_number = IF us = kBlack THEN (@ + 1) % 65536 ELSE @,
                 !.side_to_move = OppositeColor(position.side_to_move)]
    IN [pos |-> ComputeHash(p5), state |-> state]

UndoMove(position, move, state) ==
    LET p1 == [position EXCEPT !.side_to_move = state.side_to_move,
                               !.castling_rights = state.castling_rights,
                               !.en_passant_square = state.en_passant_square,
                               !.halfmove_clock = state.halfmove_clock,
                               !.fullmove_number = state.fullmove_number]
        from == FromSquare(move)
        to == ToSquare(move)
        flag == MoveFlagOf(move)
        p2 == IF flag = kFlagPromotion
              THEN PlacePiece(RemovePiece(p1, to), MakePiece(p1.side_to_move, kPawn), from)
              ELSE MovePiece(p1, to, from)
        p3 == IF flag = kFlagCastle THEN CastleRook(p2, p1.side_to_move, to, TRUE) ELSE p2
        p4 == IF state.captured_piece # 0
              THEN PlacePiece(p3, state.captured_piece, state.captured_square)
              ELSE p3
    IN ComputeHash(p4)

(* the legality test GenerateLegalMoves applies after making a pseudo move *)
KingSafeAfter(made, us) ==
    LET king_square == KingSquare(made, us) IN
    king_square # kNoSquare /\ ~IsSquareAttacked(made, king_square, OppositeColor(us))

(* the filter loop: the position is made and undone in place for every pseudo
   move, so the position the loop leaves is part of the result.  The test
   undone = undone /\ kept = kept is always true: it only has both values
   computed before the next iteration *)
RECURSIVE LegalFilter(_, _, _, _)
LegalFilter(position, pseudo_moves, index, moves) ==
    IF index > Len(pseudo_moves) THEN [pos |-> position, moves |-> moves]
    ELSE LET move == pseudo_moves[index] IN
         IF CapturedPiece(move) = kKing
         THEN LegalFilter(position, pseudo_moves, index + 1, moves)
         ELSE LET made == MakeMove(position, move)
                  keep == KingSafeAfter(made.pos, position.side_to_move)
                  undone == UndoMove(made.pos, move, made.state)
                  kept == IF keep THEN Append(moves, move) ELSE moves
              IN IF undone = undone /\ kept = kept
                 THEN LegalFilter(undone, pseudo_moves, index + 1, kept)
                 ELSE [pos |-> undone, moves |-> kept]

(* returns [pos |-> the position after the call, moves |-> the legal moves] *)
GenerateLegalMoves(position) ==
    LegalFilter(position, GeneratePseudoLegalMoves(position), 1, <<>>)

RECURSIVE Perft(_, _)
RECURSIVE PerftLoop(_, _, _, _, _)

(* the loop of Perft over the legal moves: every move is made, counted and
   undone in place, so the position the loop leaves is part of the result.
   The test undone = undone is always true: it only has the value computed
   before the next iteration *)
PerftLoop(position, moves, index, depth, nodes) ==
    IF index > Len(moves) THEN [pos |-> position, nodes |-> nodes]
    ELSE LET made == MakeMove(position, moves[index])
             below == Perft(made.pos, depth - 1)
             undone == UndoMove(below.pos, moves[index], made.state)
         IN IF undone = undone
            THEN PerftLoop(undone, moves, index + 1, depth, nodes + below.nodes)
            ELSE [pos |-> undone, nodes |-> nodes]

(* returns [pos |-> the position after the call, nodes |-> the return value] *)
Perft(position, depth) ==
    IF depth = 0 THEN [pos |-> position, nodes |-> 1]
    ELSE LET gen == GenerateLegalMoves(position) IN
         PerftLoop(gen.pos, gen.moves, 1, depth, 0)

(***************************************************************************)
(* FEN input (fen.cpp).  A text is a sequence of one-character strings.    *)
(***************************************************************************)
Digits == <<"0", "1", "2", "3", "4", "5", "6", "7", "8", "9">>
IsDigit(ch) == \E i \in 1 .. 10 : Digits[i] = ch
DigitValue(ch) == (CHOOSE i \in 1 .. 10 : Digits[i] = ch) - 1
IsSpace(ch) == ch \in {" ", "\t", "\n", "\r"}
FileChars == <<"a", "b", "c", "d", "e", "f", "g", "h">>

PieceFromFen(ch) ==
    CASE ch = "P" -> kWhitePawn
      [] ch = "N" -> kWhiteKnight
      [] ch = "B" -> kWhiteBishop
      [] ch = "R" -> kWhiteRook
      [] ch = "Q" -> kWhiteQueen
      [] ch = "K" -> kWhiteKing
      [] ch = "p" -> kBlackPawn
      [] ch = "n" -> kBlackKnight
      [] ch = "b" -> kBlackBishop
      [] ch = "r" -> kBlackRook
      [] ch = "q" -> kBlackQueen
      [] ch = "k" -> kBlackKing
      [] OTHER -> 0

(* std::from_chars on an int: optional minus sign, then digits to the end of
   the text.  Texts of more than MaxIntDigits digits are outside the model. *)
MaxIntDigits == 9
RECURSIVE DigitsValue(_, _)
DigitsValue(text, acc) ==
    IF text = <<>> THEN acc
    ELSE DigitsValue(Tail(text), acc * 10 + DigitValue(Head(text)))

ParseInt(value) ==
    LET negative == value # <<>> /\ Head(value) = "-"
        digits == IF negative THEN Tail(value) ELSE value
    IN IF value = <<>> \/ digits = <<>> \/ Len(digits) > MaxIntDigits
          \/ \E i \in 1 .. Len(digits) : ~IsDigit(digits[i])
       THEN [ok |-> FALSE, value |-> 0]
       ELSE [ok |-> TRUE,
             value |-> IF negative THEN 0 - DigitsValue(digits, 0) ELSE DigitsValue(digits, 0)]

(* static_cast<std::uint16_t>(int) *)
ToUint16(value) == value % 65536

RECURSIVE SplitFieldsFrom(_, _, _)
SplitFieldsFrom(fen, pos, fields) ==
    LET RECURSIVE SkipSpace(_)
        SkipSpace(i) == IF i <= Len(fen) /\ IsSpace(fen[i]) THEN SkipSpace(i + 1) ELSE i
        RECURSIVE SkipText(_)
        SkipText(i) == IF i <= Len(fen) /\ ~IsSpace(fen[i]) THEN SkipText(i + 1) ELSE i
        start == SkipSpace(pos)
        end == SkipText(start)
    IN IF start > Len(fen) THEN fields
       ELSE SplitFieldsFrom(fen, end, Append(fields, SubSeq(fen, start, end - 1)))

SplitFields(fen) == SplitFieldsFrom(fen, 1, <<>>)

(* the piece-placement loop of LoadFen: the board is written as the text is
   read, so a failure leaves the squares written so far *)
RECURSIVE ParsePlacement(_, _, _, _, _)
ParsePlacement(text, index, rank, file, board) ==
    IF index > Len(text)
    THEN [ok |-> rank = 0 /\ file = kFileCount, board |-> board]
    ELSE LET ch == text[index] IN
         IF ch = "/"
         THEN IF file # kFileCount THEN [ok |-> FALSE, board |-> board]
              ELSE ParsePlacement(text, index + 1, rank - 1, 0, board)
         ELSE IF IsDigit(ch)
         THEN IF DigitValue(ch) < 1 \/ DigitValue(ch) > 8 \/ file + DigitValue(ch) > kFileCount
              THEN [ok |-> FALSE, board |-> board]
              ELSE ParsePlacement(text, index + 1, rank, file + DigitValue(ch), board)
         ELSE IF PieceFromFen(ch) = 0 \/ rank < 0 \/ file >= kFileCount
              THEN [ok |-> FALSE, board |-> board]
              ELSE ParsePlacement(text, index + 1, rank, file + 1,
                                  [board EXCEPT ![MakeSquare(file, rank)] = PieceFromFen(ch)])

RECURSIVE ParseCastling(_, _, _)
ParseCastling(text, index, rights) ==
    IF index > Len(text) THEN [ok |-> TRUE, rights |-> rights]
    ELSE LET ch == text[index] IN
         CASE ch = "K" -> ParseCastling(text, index + 1, SetRight(rights, kWhiteKingSideCastle))
           [] ch = "Q" -> ParseCastling(text, index + 1, SetRight(rights, kWhiteQueenSideCastle))
           [] ch = "k" -> ParseCastling(text, index + 1, SetRight(rights, kBlackKingSideCastle))
           [] ch = "q" -> ParseCastling(text, index + 1, SetRight(rights, kBlackQueenSideCastle))
           [] OTHER -> [ok |-> FALSE, rights |-> rights]

ParseEnPassant(text) ==
    IF text = <<"-">> THEN [ok |-> TRUE, square |-> kNoSquare]
    ELSE IF Len(text) # 2 THEN [ok |-> FALSE, square |-> kNoSquare]
    ELSE LET files == { i \in 1 .. 8 : FileChars[i] = text[1] }
             rank_ok == IsDigit(text[2]) /\ DigitValue(text[2]) >= 1 /\ DigitValue(text[2]) <= 8
         IN IF files = {} \/ ~rank_ok THEN [ok |-> FALSE, square |-> kNoSquare]
            ELSE [ok |-> TRUE,
                  square |-> MakeSquare((CHOOSE i \in files : TRUE) - 1, DigitValue(text[2]) - 1)]

(* returns [ok |-> the return value, pos |-> the position after the call] *)
LoadFen(position, fen) ==
    LET fields == SplitFields(fen)
        p0 == Clear(position)
        placement == ParsePlacement(fields[1], 1, kRankCount - 1, 0, p0.board)
        p1 == [p0 EXCEPT !.board = placement.board]
        side_ok == fields[2] = <<"w">> \/ fields[2] = <<"b">>
        p2 == [p1 EXCEPT !.side_to_move = IF fields[2] = <<"w">> THEN kWhite ELSE kBlack]
        castling == IF fields[3] = <<"-">> THEN [ok |-> TRUE, rights |-> 0]
                    ELSE ParseCastling(fields[3], 1, 0)
        p3 == [p2 EXCEPT !.castling_rights = castling.rights]
        ep == ParseEnPassant(fields[4])
        p4 == [p3 EXCEPT !.en_passant_square = kNoSquare]
        p5 == [p3 EXCEPT !.en_passant_square = ep.square,
                         !.halfmove_clock = 0, !.fullmove_number = 1]
        halfmove == ParseInt(fields[5])
        p6 == [p5 EXCEPT !.halfmove_clock = ToUint16(halfmove.value)]
        fullmove == ParseInt(fields[6])
    IN IF Len(fields) < 4 THEN [ok |-> FALSE, pos |-> position]
       ELSE IF ~placement.ok THEN [ok |-> FALSE, pos |-> p1]
       ELSE IF ~side_ok THEN [ok |-> FALSE, pos |-> p1]
       ELSE IF ~castling.ok THEN [ok |-> FALSE, pos |-> p3]
       ELSE IF ~ep.ok THEN [ok |-> FALSE, pos |-> p4]
       ELSE IF Len(fields) >= 5 /\ ~halfmove.ok THEN [ok |-> FALSE, pos |-> p5]
       ELSE IF Len(fields) >= 6 /\ ~fullmove.ok
            THEN [ok |-> FALSE, pos |-> IF Len(fields) >= 5 THEN p6 ELSE p5]
       ELSE LET p7 == IF Len(fields) >= 5 THEN p6 ELSE p5
                p8 == IF Len(fields) >= 6
                      THEN [p7 EXCEPT !.fullmove_number = ToUint16(fullmove.value)] ELSE p7
            IN [ok |-> TRUE, pos |-> RebuildBitboards(p8)]

(***************************************************************************)
(* Move ordering (search.cpp): MoveScore, OrderMoves, UpdateHistory        *)
(***************************************************************************)
kMaxPly == 64
kHistoryMax == 1000000
kTtMoveScore == 1000000
kMoveValues == <<0, 100, 320, 330, 500, 900, 20000>>

(* SearchContext{table}: killers and history are zero-initialised; history is
   kept as the function of the (from, to) pairs written so far; null is set
   for the nullptr SearchRoot passes *)
NewContext ==
    [null |-> FALSE, killers |-> [i \in 0 .. kMaxPly - 1 |-> <<kNoMove, kNoMove>>],
     history |-> <<>>]

(* context.history[ToIndex(FromSquare(move))][ToIndex(ToSquare(move))] *)
HistoryOf(context, move) ==
    LET at == <<FromSquare(move), ToSquare(move)>> IN
    IF at \in DOMAIN context.history THEN context.history[at] ELSE 0

PlyIndex(ply) == IF ply < kMaxPly - 1 THEN ply ELSE kMaxPly - 1

IsTacticalMove(move) ==
    \/ MoveFlagOf(move) \in {kFlagPromotion, kFlagEnPassant}
    \/ CapturedPiece(move) # kNone

MoveScore(move, tt_move, context, ply) ==
    LET captured == CapturedPiece(move)
        capture_score == IF captured # kNone
                         THEN 5000 + (kMoveValues[captured + 1] * 10
                                      - kMoveValues[MovedPiece(move) + 1])
                         ELSE 0
        promotion_score == IF MoveFlagOf(move) = kFlagPromotion
                           THEN 8000 + kMoveValues[PromotionPiece(move) + 1] ELSE 0
        killers == context.killers[PlyIndex(ply)]
        quiet_score == IF ~context.null /\ ~IsTacticalMove(move)
                       THEN (IF move = killers[1] THEN 7000
                             ELSE IF move = killers[2] THEN 6000 ELSE 0)
                            + HistoryOf(context, move)
                       ELSE 0
    IN IF move = tt_move THEN kTtMoveScore
       ELSE capture_score + promotion_score + quiet_score

(* std::stable_sort with the comparison score(a) > score(b): a move goes
   behind the moves already placed whose score is not smaller *)
RECURSIVE StableSortByScore(_, _, _, _, _, _)
StableSortByScore(list, index, sorted, tt_move, context, ply) ==
    IF index > Len(list) THEN sorted
    ELSE LET score == MoveScore(list[index], tt_move, context, ply)
             ahead == Cardinality({ i \in DOMAIN sorted :
                          MoveScore(sorted[i], tt_move, context, ply) >= score })
         IN StableSortByScore(list, index + 1,
                SubSeq(sorted, 1, ahead) \o <<list[index]>>
                    \o SubSeq(sorted, ahead + 1, Len(sorted)),
                tt_move, context, ply)

OrderMoves(list, tt_move, context, ply) ==
    IF Len(list) < 2 THEN list
    ELSE StableSortByScore(list, 1, <<>>, tt_move, context, ply)

(* UpdateHistory without the test of the primary killer at line 161 *)
UpdateHistoryNoKillerTest(context, move, search_depth, ply) ==
    IF IsTacticalMove(move) THEN context
    ELSE LET killers == context.killers[PlyIndex(ply)]
             at == <<FromSquare(move), ToSquare(move)>>
             raised == HistoryOf(context, move) + search_depth * search_depth
             entry == IF raised < kHistoryMax THEN raised ELSE kHistoryMax
         IN [context EXCEPT
                !.killers[PlyIndex(ply)] = <<move, killers[1]>>,
                !.history = [ k \in DOMAIN context.history \cup {at} |->
                                IF k = at THEN entry ELSE context.history[k] ]]

UpdateHistory(context, move, search_depth, ply) ==
    IF IsTacticalMove(move) THEN context
    ELSE LET killers == context.killers[PlyIndex(ply)]
             at == <<FromSquare(move), ToSquare(move)>>
             raised == HistoryOf(context, move) + search_depth * search_depth
             entry == IF raised < kHistoryMax THEN raised ELSE kHistoryMax
         IN [context EXCEPT
                !.killers[PlyIndex(ply)] =
                    IF killers[1] # move THEN <<move, killers[1]>> ELSE killers,
                !.history = [ k \in DOMAIN context.history \cup {at} |->
                                IF k = at THEN entry ELSE context.history[k] ]]

(***************************************************************************)
(* The null move (search.cpp)                                              *)
(***************************************************************************)
(* returns [pos |-> the position after the call, state |-> the NullState] *)
MakeNullMove(position) ==
    [pos |-> ComputeHash([position EXCEPT
                 !.en_passant_square = kNoSquare,
                 !.side_to_move = OppositeColor(position.side_to_move)]),
     state |-> [en_passant_square |-> position.en_passant_square,
                side_to_move |-> position.side_to_move]]

UndoNullMove(position, state) ==
    ComputeHash([position EXCEPT !.en_passant_square = state.en_passant_square,
                                 !.side_to_move = state.side_to_move])

(***************************************************************************)
(* FEN texts given to LoadFen                                              *)
(***************************************************************************)
(* 4k3/8/8/3pP3/8/8/8/4K3 w - d6 0 1 *)
FenEnPassant ==
    <<"4", "k", "3", "/", "8", "/", "8", "/", "3", "p", "P", "3", "/", "8", "/", "8",
      "/", "8", "/", "4", "K", "3", " ", "w", " ", "-", " ", "d", "6", " ", "0", " ",
      "1">>
(* 4k3/8/8/8/3p4/8/4P3/4K3 w - - 0 1 *)
FenDoublePush ==
    <<"4", "k", "3", "/", "8", "/", "8", "/", "8", "/", "3", "p", "4", "/", "8", "/",
      "4", "P", "3", "/", "4", "K", "3", " ", "w", " ", "-", " ", "-", " ", "0", " ",
      "1">>
(* 4k3/8/8/8/8/8/4P3/4K3 w - - 0 1 *)
FenDoublePushFree ==
    <<"4", "k", "3", "/", "8", "/", "8", "/", "8", "/", "8", "/", "8", "/", "4", "P",
      "3", "/", "4", "K", "3", " ", "w", " ", "-", " ", "-", " ", "0", " ", "1">>
(* r3k3/8/8/8/8/8/8/4K2R w Kq - 0 1 *)
FenCastling ==
    <<"r", "3", "k", "3", "/", "8", "/", "8", "/", "8", "/", "8", "/", "8", "/", "8",
      "/", "4", "K", "2", "R", " ", "w", " ", "K", "q", " ", "-", " ", "0", " ", "1">>
(* 4kr2/8/8/8/8/8/8/RN2K2R w KQ - 0 1 *)
FenCastlingBarred ==
    <<"4", "k", "r", "2", "/", "8", "/", "8", "/", "8", "/", "8", "/", "8", "/", "8",
      "/", "R", "N", "2", "K", "2", "R", " ", "w", " ", "K", "Q", " ", "-", " ", "0",
      " ", "1">>
(* 4k2r/8/8/8/8/8/8/4RK2 b k - 3 7 *)
FenCastlingInCheck ==
    <<"4", "k", "2", "r", "/", "8", "/", "8", "/", "8", "/", "8", "/", "8", "/", "8",
      "/", "4", "R", "K", "2", " ", "b", " ", "k", " ", "-", " ", "3", " ", "7">>
(* 7k/P7/8/8/8/8/7p/7K w - - 0 1 *)
FenPromotion ==
    <<"7", "k", "/", "P", "7", "/", "8", "/", "8", "/", "8", "/", "8", "/", "7", "p",
      "/", "7", "K", " ", "w", " ", "-", " ", "-", " ", "0", " ", "1">>
(* 8/8/8/3k4/8/4K3/8/8 w - - *)
FenFourFields ==
    <<"8", "/", "8", "/", "8", "/", "3", "k", "4", "/", "8", "/", "4", "K", "3", "/",
      "8", "/", "8", " ", "w", " ", "-", " ", "-">>
(* 3rk3/8/3n4/4P3/8/8/8/3K4 w - d6 0 1 *)
FenOccupiedTarget ==
    <<"3", "r", "k", "3", "/", "8", "/", "3", "n", "4", "/", "4", "P", "3", "/", "8",
      "/", "8", "/", "8", "/", "3", "K", "4", " ", "w", " ", "-", " ", "d", "6", " ",
      "0", " ", "1">>
(* 8/8/8/8/8/8/8/8 w - - 0 1 *)
FenNoKings ==
    <<"8", "/", "8", "/", "8", "/", "8", "/", "8", "/", "8", "/", "8", "/", "8", " ",
      "w", " ", "-", " ", "-", " ", "0", " ", "1">>
(* 4k3/8/8/8/8/8/8/4K3 w - e4 0 1 *)
FenStrayTarget ==
    <<"4", "k", "3", "/", "8", "/", "8", "/", "8", "/", "8", "/", "8", "/", "8", "/",
      "4", "K", "3", " ", "w", " ", "-", " ", "e", "4", " ", "0", " ", "1">>
(* 4k3/8/8/8/8/8/8/3K4 w KQkq - 0 1 *)
FenStrayRights ==
    <<"4", "k", "3", "/", "8", "/", "8", "/", "8", "/", "8", "/", "8", "/", "8", "/",
      "3", "K", "4", " ", "w", " ", "K", "Q", "k", "q", " ", "-", " ", "0", " ", "1">>
(* 4k3/8/8/8/8/8/8/4K2 w - - 0 1 *)
FenBadPlacement ==
    <<"4", "k", "3", "/", "8", "/", "8", "/", "8", "/", "8", "/", "8", "/", "8", "/",
      "4", "K", "2", " ", "w", " ", "-", " ", "-", " ", "0", " ", "1">>
(* 4k3/8/8/8/8/8/8/4K3 x - - 0 1 *)
FenBadSide ==
    <<"4", "k", "3", "/", "8", "/", "8", "/", "8", "/", "8", "/", "8", "/", "8", "/",
      "4", "K", "3", " ", "x", " ", "-", " ", "-", " ", "0", " ", "1">>
(* 4k3/8/8/8/8/8/8/4K3 b KX - 0 1 *)
FenBadCastling ==
    <<"4", "k", "3", "/", "8", "/", "8", "/", "8", "/", "8", "/", "8", "/", "8", "/",
      "4", "K", "3", " ", "b", " ", "K", "X", " ", "-", " ", "0", " ", "1">>
(* 4k3/8/8/8/8/8/8/4K3 b Q e9 0 1 *)
FenBadTarget ==
    <<"4", "k", "3", "/", "8", "/", "8", "/", "8", "/", "8", "/", "8", "/", "8", "/",
      "4", "K", "3", " ", "b", " ", "Q", " ", "e", "9", " ", "0", " ", "1">>
(* 4k3/8/8/8/8/8/8/4K3 b - e3 x 1 *)
FenBadHalfmove ==
    <<"4", "k", "3", "/", "8", "/", "8", "/", "8", "/", "8", "/", "8", "/", "8", "/",
      "4", "K", "3", " ", "b", " ", "-", " ", "e", "3", " ", "x", " ", "1">>
(* 4k3/8/8/8/8/8/8/4K3 b - - 12 y *)
FenBadFullmove ==
    <<"4", "k", "3", "/", "8", "/", "8", "/", "8", "/", "8", "/", "8", "/", "8", "/",
      "4", "K", "3", " ", "b", " ", "-", " ", "-", " ", "1", "2", " ", "y">>
(* 4k3/8/8/8/8/8/8/4K3 w - *)
FenTooShort ==
    <<"4", "k", "3", "/", "8", "/", "8", "/", "8", "/", "8", "/", "8", "/", "8", "/",
      "4", "K", "3", " ", "w", " ", "-">>
(* 1n2k3/P7/8/8/8/8/8/4K3 w - - 0 1 *)
FenCapturePromotion ==
    <<"1", "n", "2", "k", "3", "/", "P", "7", "/", "8", "/", "8", "/", "8", "/", "8",
      "/", "8", "/", "4", "K", "3", " ", "w", " ", "-", " ", "-", " ", "0", " ", "1">>
(* 4k3/P7/8/8/8/8/8/4K3 w - b8 0 1 *)
FenLastRankTarget ==
    <<"4", "k", "3", "/", "P", "7", "/", "8", "/", "8", "/", "8", "/", "8", "/", "8",
      "/", "4", "K", "3", " ", "w", " ", "-", " ", "b", "8", " ", "0", " ", "1">>
(* r3k3/8/8/8/8/8/8/R3K3 w Qq - 0 1 *)
FenRooks ==
    <<"r", "3", "k", "3", "/", "8", "/", "8", "/", "8", "/", "8", "/", "8", "/", "8",
      "/", "R", "3", "K", "3", " ", "w", " ", "Q", "q", " ", "-", " ", "0", " ", "1">>
(* 8/8/8/8/k2p3R/8/4P3/4K3 w - - 0 1 *)
FenPinnedCapturer ==
    <<"8", "/", "8", "/", "8", "/", "8", "/", "k", "2", "p", "3", "R", "/", "8", "/",
      "4", "P", "3", "/", "4", "K", "3", " ", "w", " ", "-", " ", "-", " ", "0", " ",
      "1">>
(* 4k3/8/8/8/8/8/8/4K3 b - - 65535 65535 *)
FenClocksAtMax ==
    <<"4", "k", "3", "/", "8", "/", "8", "/", "8", "/", "8", "/", "8", "/", "8", "/",
      "4", "K", "3", " ", "b", " ", "-", " ", "-", " ", "6", "5", "5", "3", "5", " ", "6",
      "5", "5", "3", "5">>
FenInputs ==
    <<FenEnPassant,
      FenDoublePush,
      FenDoublePushFree,
      FenCastling,
      FenCastlingBarred,
      FenCastlingInCheck,
      FenPromotion,
      FenFourFields,
      FenOccupiedTarget,
      FenNoKings,
      FenStrayTarget,
      FenStrayRights,
      FenBadPlacement,
      FenBadSide,
      FenBadCastling,
      FenBadTarget,
      FenBadHalfmove,
      FenBadFullmove,
      FenTooShort,
      FenCapturePromotion,
      FenLastRankTarget,
      FenRooks,
      FenPinnedCapturer,
      FenClocksAtMax>>

(***************************************************************************)
(* FEN output (fen.cpp)                                                    *)
(***************************************************************************)
(* every piece is written with the letter of the white piece *)
PieceToFenCharWhite(piece) ==
    CASE piece \in {kWhitePawn, kBlackPawn} -> "P"
      [] piece \in {kWhiteKnight, kBlackKnight} -> "N"
      [] piece \in {kWhiteBishop, kBlackBishop} -> "B"
      [] piece \in {kWhiteRook, kBlackRook} -> "R"
      [] piece \in {kWhiteQueen, kBlackQueen} -> "Q"
      [] piece \in {kWhiteKing, kBlackKing} -> "K"
      [] OTHER -> ""

(* "" stands for the character '\0' *)
PieceToFenChar(piece) ==
    CASE piece = kWhitePawn -> "P"
      [] piece = kWhiteKnight -> "N"
      [] piece = kWhiteBishop -> "B"
      [] piece = kWhiteRook -> "R"
      [] piece = kWhiteQueen -> "Q"
      [] piece = kWhiteKing -> "K"
      [] piece = kBlackPawn -> "p"
      [] piece = kBlackKnight -> "n"
      [] piece = kBlackBishop -> "b"
      [] piece = kBlackRook -> "r"
      [] piece = kBlackQueen -> "q"
      [] piece = kBlackKing -> "k"
      [] OTHER -> ""

(* std::to_string of a clock: the fields are std::uint16_t, so the value is
   never negative *)
RECURSIVE to_string(_)
to_string(value) ==
    IF value < 10 THEN <<Digits[value + 1]>>
    ELSE Append(to_string(value \div 10), Digits[(value % 10) + 1])

(* one rank of the placement field, from file on, with empty squares counted *)
RECURSIVE RankToFen(_, _, _, _)
RankToFen(board, rank, file, empty) ==
    IF file = kFileCount
    THEN (IF empty > 0 THEN <<Digits[empty + 1]>> ELSE <<>>)
    ELSE LET piece == board[MakeSquare(file, rank)] IN
         IF piece = kNone THEN RankToFen(board, rank, file + 1, empty + 1)
         ELSE (IF empty > 0 THEN <<Digits[empty + 1]>> ELSE <<>>)
              \o (IF PieceToFenChar(piece) # "" THEN <<PieceToFenChar(piece)>> ELSE <<>>)
              \o RankToFen(board, rank, file + 1, 0)

(* the placement field from rank down to rank 0 *)
RECURSIVE PlacementToFen(_, _)
PlacementToFen(board, rank) ==
    RankToFen(board, rank, 0, 0)
        \o (IF rank > 0 THEN <<"/">> \o PlacementToFen(board, rank - 1) ELSE <<>>)

CastlingToFen(rights) ==
    LET castling == (IF HasRight(rights, kWhiteKingSideCastle) THEN <<"K">> ELSE <<>>)
                    \o (IF HasRight(rights, kWhiteQueenSideCastle) THEN <<"Q">> ELSE <<>>)
                    \o (IF HasRight(rights, kBlackKingSideCastle) THEN <<"k">> ELSE <<>>)
                    \o (IF HasRight(rights, kBlackQueenSideCastle) THEN <<"q">> ELSE <<>>)
    IN IF castling = <<>> THEN <<"-">> ELSE castling

ToFen(position) ==
    PlacementToFen(position.board, kRankCount - 1)
        \o <<" ", IF position.side_to_move = kWhite THEN "w" ELSE "b", " ">>
        \o CastlingToFen(position.castling_rights)
        \o <<" ">>
        \o (IF position.en_passant_square = kNoSquare THEN <<"-">>
            ELSE <<FileChars[FileOf(position.en_passant_square) + 1],
                   Digits[RankOf(position.en_passant_square) + 2]>>)
        \o <<" ">>
        \o to_string(position.halfmove_clock)
        \o <<" ">>
        \o to_string(position.fullmove_number)

(***************************************************************************)
(* Moves given as UCI text (move.h, uci.cpp)                               *)
(***************************************************************************)
kSquareNames == [square \in Squares |-> <<FileChars[FileOf(square) + 1], Digits[RankOf(square) + 2]>>]

(* "" stands for the character '\0' *)
PromotionChar(type) ==
    CASE type = kKnight -> "n"
      [] type = kBishop -> "b"
      [] type = kRook -> "r"
      [] type = kQueen -> "q"
      [] OTHER -> ""

MoveToUci(move) ==
    IF move = kNoMove THEN <<"0", "0", "0", "0">>
    ELSE LET uci == kSquareNames[FromSquare(move)] \o kSquareNames[ToSquare(move)]
             promotion == PromotionChar(PromotionPiece(move))
         IN IF MoveFlagOf(move) = kFlagPromotion /\ promotion # ""
            THEN Append(uci, promotion)
            ELSE uci

(* the first move of the list whose text is uci, kNoMove when there is none *)
RECURSIVE FirstUciMatch(_, _, _)
FirstUciMatch(list, index, uci) ==
    IF index > Len(list) THEN kNoMove
    ELSE IF MoveToUci(list[index]) = uci THEN list[index]
    ELSE FirstUciMatch(list, index + 1, uci)

(* the loop of ApplyUciMove over the list gen.moves that GenerateLegalMoves
   filled, gen.pos being the position it left; returns [ok |-> the return
   value, pos |-> the position after the call, move |-> the move made] *)
MakeFirstMatch(gen, uci) ==
    LET move == FirstUciMatch(gen.moves, 1, uci) IN
    IF move # kNoMove
    THEN [ok |-> TRUE, pos |-> MakeMove(gen.pos, move).pos, move |-> move]
    ELSE [ok |-> FALSE, pos |-> gen.pos, move |-> kNoMove]

ApplyUciMove(position, uci) == MakeFirstMatch(GenerateLegalMoves(position), uci)

(***************************************************************************)
(* The engine's position as a state machine: the caller owns one Position, *)
(* the legal-move list last generated for it and the MoveStates of the     *)
(* moves it has made and not yet undone.                                   *)
(***************************************************************************)
(* MaxPly bounds the depth of play.  The piece primitives are called on a
   position after it has been set up, at most MaxEdits times, and a position
   edited with k such calls is played k plies less deep. *)
MaxPly == 2
MaxEdits == 1
EditPieces == {0, kWhiteKnight}
EditSquares == {kE1, kE4}

(* position: the Position object; stack: the (move, MoveState) pairs of the
   moves made and not yet undone, with the position each was made from; moves:
   the vector filled by the last GenerateLegalMoves; op: the last call;
   ok, last_fen: the return value and the input of the last LoadFen;
   origin: the call that set the position up; last_move: the move of the last
   MakeMove; prev: the position the last call was given (for UndoMove: the
   position its MoveState was taken from); edits: primitive calls so far. *)
VARIABLES position, stack, moves, moves_valid, op, ok, last_move, last_fen, prev, edits,
          origin

posVars == <<position, stack, moves, moves_valid, op, ok, last_move, last_fen, prev, edits,
            origin>>

NewPosition == Clear(<<>>)

PosInit ==
    /\ position = NewPosition
    /\ stack = <<>>
    /\ moves = <<>>
    /\ moves_valid = FALSE
    /\ op = "Position"
    /\ ok = TRUE
    /\ last_move = kNoMove
    /\ last_fen = 0
    /\ prev = NewPosition
    /\ edits = 0
    /\ origin = "Position"

(* a call that rewrites the position outside make/undo: the move list and the
   pending MoveStates of the old position are dropped *)
Reset(name, result, success, fen, from) ==
    /\ stack = <<>>
    /\ position' = result
    /\ stack' = <<>>
    /\ moves' = <<>>
    /\ moves_valid' = FALSE
    /\ op' = name
    /\ ok' = success
    /\ last_move' = kNoMove
    /\ last_fen' = fen
    /\ prev' = position
    /\ origin' = from

CallClear ==
    /\ edits = 0
    /\ Reset("Clear", Clear(position), TRUE, 0, "Clear")
    /\ UNCHANGED edits

CallSetStartPosition ==
    /\ edits = 0
    /\ Reset("SetStartPosition", SetStartPosition(position), TRUE, 0, "SetStartPosition")
    /\ UNCHANGED edits

CallLoadFen ==
    \E f \in 1 .. Len(FenInputs) :
        LET loaded == LoadFen(position, FenInputs[f]) IN
        /\ edits = 0
        /\ Reset("LoadFen", loaded.pos, loaded.ok, f, "LoadFen")
        /\ UNCHANGED edits

CallRebuildBitboards ==
    Reset("RebuildBitboards", RebuildBitboards(position), ok, last_fen, origin)
    /\ UNCHANGED edits

CallPlacePiece ==
    \E piece \in EditPieces, square \in EditSquares :
        /\ edits < MaxEdits
        /\ Reset("PlacePiece", PlacePiece(position, piece, square), ok, last_fen, "Edit")
        /\ edits' = edits + 1

CallRemovePiece ==
    \E square \in EditSquares :
        /\ edits < MaxEdits
        /\ Reset("RemovePiece", RemovePiece(position, square), ok, last_fen, "Edit")
        /\ edits' = edits + 1

CallMovePiece ==
    \E from \in EditSquares, to \in EditSquares :
        /\ edits < MaxEdits
        /\ from # to
        /\ Reset("MovePiece", MovePiece(position, from, to), ok, last_fen, "Edit")
        /\ edits' = edits + 1

CallGenerateLegalMoves ==
    LET gen == GenerateLegalMoves(position) IN
    /\ ~moves_valid
    /\ Len(stack) + edits < MaxPly
    /\ position' = gen.pos
    /\ moves' = gen.moves
    /\ moves_valid' = TRUE
    /\ op' = "GenerateLegalMoves"
    /\ last_move' = kNoMove
    /\ prev' = position
    /\ UNCHANGED <<stack, edits, ok, last_fen, origin>>

CallMakeMove ==
    \E i \in 1 .. Len(moves) :
        LET made == MakeMove(position, moves[i]) IN
        /\ moves_valid
        /\ Len(stack) + edits < MaxPly
        /\ position' = made.pos
        /\ stack' = Append(stack, [move |-> moves[i], state |-> made.state, before |-> position])
        /\ moves' = <<>>
        /\ moves_valid' = FALSE
        /\ op' = "MakeMove"
        /\ last_move' = moves[i]
        /\ prev' = position
        /\ UNCHANGED <<edits, ok, last_fen, origin>>

CallUndoMove ==
    /\ stack # <<>>
    /\ LET top == stack[Len(stack)] IN
       /\ position' = UndoMove(position, top.move, top.state)
       /\ prev' = top.before
    /\ stack' = SubSeq(stack, 1, Len(stack) - 1)
    /\ moves' = <<>>
    /\ moves_valid' = FALSE
    /\ op' = "UndoMove"
    /\ last_move' = kNoMove
    /\ UNCHANGED <<edits, ok, last_fen, origin>>

(***************************************************************************)
(* The transposition table shared by the search threads                    *)
(* (transposition_table.h, transposition_table.cpp).  The repository holds  *)
(* two implementations: one guards each entry with a striped mutex, the    *)
(* other keeps each entry as two atomic words, key and packed data.  Every *)
(* atomic load and store is one step; the steps of different threads       *)
(* interleave in a single total order.                                     *)
(***************************************************************************)
kBoundExact == 0
kBoundLower == 1
kBoundUpper == 2
kDepthBias == 1
kMaxDepthStored == 254

(* the table has kEntryCount entries and kLockCount mutexes, both powers of
   two with kLockCount <= kEntryCount; the model keeps that shape on a small
   table *)
kEntryCount == 4
kLockCount == 2
EntryIndex(key) == key % kEntryCount
(* a stripe chosen by the bits of the key above the entry index *)
LockIndexHighBits(key) == (key \div kEntryCount) % kLockCount
LockIndex(key) == key % kLockCount

ClampScore(score) ==
    IF score > 32767 THEN 32767 ELSE IF score < -32768 THEN -32768 ELSE score

ClampDepth(depth) ==
    IF depth < 0 THEN 0 ELSE IF depth > kMaxDepthStored THEN kMaxDepthStored ELSE depth

(* the depth is packed without the bias *)
PackEntryNoBias(best_move, score, depth, bound) ==
    [move_bits |-> best_move,
     score_bits |-> ClampScore(score) % 65536,
     depth_bits |-> ClampDepth(depth) % 256,
     bound_bits |-> bound % 4]

(* the packed word as its four bit fields *)
PackEntry(best_move, score, depth, bound) ==
    [move_bits |-> best_move,
     score_bits |-> ClampScore(score) % 65536,
     depth_bits |-> (ClampDepth(depth) + kDepthBias) % 256,
     bound_bits |-> bound % 4]

UnpackMove(packed) == packed.move_bits
UnpackScore(packed) ==
    IF packed.score_bits >= 32768 THEN packed.score_bits - 65536 ELSE packed.score_bits
UnpackDepth(packed) == packed.depth_bits - kDepthBias
UnpackBound(packed) ==
    IF packed.bound_bits > kBoundUpper THEN kBoundExact ELSE packed.bound_bits

(* data word 0 *)
ZeroData == [move_bits |-> 0, score_bits |-> 0, depth_bits |-> 0, bound_bits |-> 0]

(* TranspositionEntry{} *)
DefaultEntry ==
    [key |-> 0, best_move |-> kNoMove, depth |-> -1, score |-> 0, bound |-> kBoundExact]

MaxTableOps == 3
MaxTableThreads == 2
TableThreads == 1 .. MaxTableThreads
(* keys 1 and 5 share an entry (and a mutex); key 2 has its own *)
TableKeys == {1, 2, 5}
StoreInputs ==
    { [depth |-> 1, score |-> -7, bound |-> kBoundExact, best_move |-> 796],
      [depth |-> 2, score |-> 300, bound |-> kBoundLower, best_move |-> 1820] }

(* table_impl: which implementation; table_key, table_data: the atomic words
   of each entry; table_entry: the entries of the mutex implementation;
   table_lock: the owner of each mutex (0: free); caller: the call each
   thread is in and how far it got; probe_result: what the last Probe of each
   thread returned; store_log: the arguments of every Store call begun;
   table_ops: the calls begun. *)
VARIABLES table_impl, table_key, table_data, table_entry, table_lock, caller,
          probe_result, store_log, table_ops

tableVars == <<table_impl, table_key, table_data, table_entry, table_lock, caller,
               probe_result, store_log, table_ops>>

IdleCaller == [pc |-> "idle", key |-> 0, depth |-> 0, score |-> 0, bound |-> 0, best_move |-> 0]
NoResult == [hit |-> FALSE, entry |-> DefaultEntry]

TableInit ==
    /\ table_impl \in {"atomic", "mutex"}
    /\ table_key = [e \in 0 .. kEntryCount - 1 |-> 0]
    /\ table_data = [e \in 0 .. kEntryCount - 1 |-> ZeroData]
    /\ table_entry = [e \in 0 .. kEntryCount - 1 |-> DefaultEntry]
    /\ table_lock = [l \in 0 .. kLockCount - 1 |-> 0]
    /\ caller = [t \in TableThreads |-> IdleCaller]
    /\ probe_result = [t \in TableThreads |-> NoResult]
    /\ store_log = {}
    /\ table_ops = 0

(* the table is not in use *)
TableIdle ==
    /\ table_impl = "atomic"
    /\ table_key = [e \in 0 .. kEntryCount - 1 |-> 0]
    /\ table_data = [e \in 0 .. kEntryCount - 1 |-> ZeroData]
    /\ table_entry = [e \in 0 .. kEntryCount - 1 |-> DefaultEntry]
    /\ table_lock = [l \in 0 .. kLockCount - 1 |-> 0]
    /\ caller = [t \in TableThreads |-> IdleCaller]
    /\ probe_result = [t \in TableThreads |-> NoResult]
    /\ store_log = {}
    /\ table_ops = 0

Goto(t, pc) == caller' = [caller EXCEPT ![t].pc = pc]

Return(t) == caller' = [caller EXCEPT ![t] = IdleCaller]

(* a thread calls Probe(key) *)
CallProbe(t) ==
    \E key \in TableKeys :
        /\ caller[t].pc = "idle"
        /\ table_ops < MaxTableOps
        /\ table_ops' = table_ops + 1
        /\ caller' = [caller EXCEPT ![t] = [IdleCaller EXCEPT
                         !.pc = IF table_impl = "atomic" THEN "probe_key" ELSE "probe_lock",
                         !.key = key]]
        /\ probe_result' = [probe_result EXCEPT ![t] = NoResult]
        /\ UNCHANGED <<table_impl, table_key, table_data, table_entry, table_lock, store_log>>

(* a thread calls Store(key, depth, score, bound, best_move) *)
CallStore(t) ==
    \E key \in TableKeys, in \in StoreInputs :
        /\ caller[t].pc = "idle"
        /\ table_ops < MaxTableOps
        /\ table_ops' = table_ops + 1
        /\ caller' = [caller EXCEPT ![t] =
                         [pc |-> IF table_impl = "atomic" THEN "store_key" ELSE "store_lock",
                          key |-> key, depth |-> in.depth, score |-> in.score,
                          bound |-> in.bound, best_move |-> in.best_move]]
        /\ store_log' = store_log \cup
               {[key |-> key, best_move |-> in.best_move, depth |-> in.depth,
                 score |-> in.score, bound |-> in.bound]}
        /\ UNCHANGED <<table_impl, table_key, table_data, table_entry, table_lock, probe_result>>

(* atomic Probe: stored.key.load(acquire) and the comparison *)
ProbeLoadKey(t) ==
    /\ caller[t].pc = "probe_key"
    /\ IF table_key[EntryIndex(caller[t].key)] # caller[t].key
       THEN Return(t)
       ELSE Goto(t, "probe_data")
    /\ UNCHANGED <<table_impl, table_key, table_data, table_entry, table_lock, probe_result,
                   store_log, table_ops>>

(* atomic Probe: stored.data.load(relaxed), the depth test and the unpacking *)
ProbeLoadData(t) ==
    /\ caller[t].pc = "probe_data"
    /\ LET packed == table_data[EntryIndex(caller[t].key)] IN
       probe_result' = [probe_result EXCEPT ![t] =
           IF UnpackDepth(packed) < 0 THEN NoResult
           ELSE [hit |-> TRUE,
                 entry |-> [key |-> caller[t].key, best_move |-> UnpackMove(packed),
                            depth |-> UnpackDepth(packed), score |-> UnpackScore(packed),
                            bound |-> UnpackBound(packed)]]]
    /\ Return(t)
    /\ UNCHANGED <<table_impl, table_key, table_data, table_entry, table_lock, store_log,
                   table_ops>>

(* atomic Store: stored.key.load(relaxed) and the comparison *)
StoreLoadKey(t) ==
    /\ caller[t].pc = "store_key"
    /\ IF table_key[EntryIndex(caller[t].key)] = caller[t].key
       THEN Goto(t, "store_depth")
       ELSE Goto(t, "store_data")
    /\ UNCHANGED <<table_impl, table_key, table_data, table_entry, table_lock, probe_result,
                   store_log, table_ops>>

(* atomic Store: stored.data.load(relaxed) and the depth comparison *)
StoreLoadData(t) ==
    /\ caller[t].pc = "store_depth"
    /\ IF UnpackDepth(table_data[EntryIndex(caller[t].key)]) > caller[t].depth
       THEN Return(t)
       ELSE Goto(t, "store_data")
    /\ UNCHANGED <<table_impl, table_key, table_data, table_entry, table_lock, probe_result,
                   store_log, table_ops>>

(* atomic Store: stored.data.store(packed, relaxed) *)
StoreWriteData(t) ==
    /\ caller[t].pc = "store_data"
    /\ table_data' = [table_data EXCEPT ![EntryIndex(caller[t].key)] =
           PackEntry(caller[t].best_move, caller[t].score, caller[t].depth, caller[t].bound)]
    /\ Goto(t, "store_publish")
    /\ UNCHANGED <<table_impl, table_key, table_entry, table_lock, probe_result, store_log,
                   table_ops>>

(* atomic Store: stored.key.store(key, release) *)
StoreWriteKey(t) ==
    /\ caller[t].pc = "store_publish"
    /\ table_key' = [table_key EXCEPT ![EntryIndex(caller[t].key)] = caller[t].key]
    /\ Return(t)
    /\ UNCHANGED <<table_impl, table_data, table_entry, table_lock, probe_result, store_log,
                   table_ops>>

(* mutex implementation: std::lock_guard on locks_[key & lock_mask_] *)
AcquireLock(t) ==
    /\ caller[t].pc \in {"probe_lock", "store_lock"}
    /\ table_lock[LockIndex(caller[t].key)] = 0
    /\ table_lock' = [table_lock EXCEPT ![LockIndex(caller[t].key)] = t]
    /\ Goto(t, IF caller[t].pc = "probe_lock" THEN "probe_locked" ELSE "store_locked")
    /\ UNCHANGED <<table_impl, table_key, table_data, table_entry, probe_result, store_log,
                   table_ops>>

(* mutex Probe: the body under the lock, and the unlock on return *)
LockedProbe(t) ==
    /\ caller[t].pc = "probe_locked"
    /\ LET stored == table_entry[EntryIndex(caller[t].key)] IN
       probe_result' = [probe_result EXCEPT ![t] =
           IF stored.key = caller[t].key THEN [hit |-> TRUE, entry |-> stored] ELSE NoResult]
    /\ table_lock' = [table_lock EXCEPT ![LockIndex(caller[t].key)] = 0]
    /\ Return(t)
    /\ UNCHANGED <<table_impl, table_key, table_data, table_entry, store_log, table_ops>>

(* mutex Store: the body under the lock, and the unlock on return *)
LockedStore(t) ==
    /\ caller[t].pc = "store_locked"
    /\ LET stored == table_entry[EntryIndex(caller[t].key)] IN
       table_entry' = [table_entry EXCEPT ![EntryIndex(caller[t].key)] =
           IF stored.key # caller[t].key \/ caller[t].depth >= stored.depth
           THEN [key |-> caller[t].key, best_move |-> caller[t].best_move,
                 depth |-> caller[t].depth, score |-> caller[t].score,
                 bound |-> caller[t].bound]
           ELSE stored]
    /\ table_lock' = [table_lock EXCEPT ![LockIndex(caller[t].key)] = 0]
    /\ Return(t)
    /\ UNCHANGED <<table_impl, table_key, table_data, probe_result, store_log, table_ops>>

TableNext ==
    \E t \in TableThreads :
        \/ CallProbe(t)
        \/ CallStore(t)
        \/ ProbeLoadKey(t)
        \/ ProbeLoadData(t)
        \/ StoreLoadKey(t)
        \/ StoreLoadData(t)
        \/ StoreWriteData(t)
        \/ StoreWriteKey(t)
        \/ AcquireLock(t)
        \/ LockedProbe(t)
        \/ LockedStore(t)

(***************************************************************************)
(* The transposition table used by one thread: Clear, Store and Probe run  *)
(* from call to return with no other call in between                       *)
(***************************************************************************)
MaxSeqCalls == 3
(* keys 0 and 4 share the first entry; key 1 has its own *)
SeqKeys == {0, 1, 4}
(* the ends of the ranges Store packs: scores -32768, 32767 and the mate
   scores with their ply adjustment, depths 0 and 254, the three bounds, the
   moves 0 and 2^31 - 1 (every move the engine encodes is below 2^28) *)
SeqStoreInputs ==
    { [depth |-> 0, score |-> -32768, bound |-> kBoundUpper, best_move |-> 2147483647],
      [depth |-> 254, score |-> 32767, bound |-> kBoundLower, best_move |-> kNoMove],
      [depth |-> 1, score |-> 30064, bound |-> kBoundExact, best_move |-> 796],
      [depth |-> 3, score |-> -30064, bound |-> kBoundUpper, best_move |-> 1820],
      [depth |-> 2, score |-> -1, bound |-> kBoundLower, best_move |-> 67114764] }

(* seq_call: the last call of the thread, its arguments and, for a Store,
   whether it wrote the entry; seq_log: the calls made so far. *)
VARIABLES seq_call, seq_log

seqVars == <<seq_call, seq_log>>

NoCall ==
    [name |-> "none", key |-> 0, depth |-> 0, score |-> 0, bound |-> 0, best_move |-> 0,
     wrote |-> FALSE]

SeqIdle ==
    /\ seq_call = NoCall
    /\ seq_log = <<>>

(* the atomic Probe from call to return *)
ProbeAtomic(keys, data, key) ==
    LET packed == data[EntryIndex(key)] IN
    IF keys[EntryIndex(key)] # key THEN NoResult
    ELSE IF UnpackDepth(packed) < 0 THEN NoResult
    ELSE [hit |-> TRUE,
          entry |-> [key |-> key, best_move |-> UnpackMove(packed),
                     depth |-> UnpackDepth(packed), score |-> UnpackScore(packed),
                     bound |-> UnpackBound(packed)]]

(* the mutex Probe from call to return *)
ProbeMutex(entries, key) ==
    LET stored == entries[EntryIndex(key)] IN
    IF stored.key = key THEN [hit |-> TRUE, entry |-> stored] ELSE NoResult

(* whether Store writes the entry *)
StoreWrites(key, depth) ==
    IF table_impl = "atomic"
    THEN ~(/\ table_key[EntryIndex(key)] = key
           /\ UnpackDepth(table_data[EntryIndex(key)]) > depth)
    ELSE \/ table_entry[EntryIndex(key)].key # key
         \/ depth >= table_entry[EntryIndex(key)].depth

SeqCalled(name, key, in, wrote) ==
    /\ Len(seq_log) < MaxSeqCalls
    /\ seq_call' = [name |-> name, key |-> key, depth |-> in.depth, score |-> in.score,
                    bound |-> in.bound, best_move |-> in.best_move, wrote |-> wrote]
    /\ seq_log' = Append(seq_log, seq_call')

(* TranspositionTable::Clear() of either implementation *)
SeqClear ==
    /\ SeqCalled("Clear", 0, NoCall, FALSE)
    /\ table_key' = [e \in 0 .. kEntryCount - 1 |-> 0]
    /\ table_data' = [e \in 0 .. kEntryCount - 1 |-> ZeroData]
    /\ table_entry' = [e \in 0 .. kEntryCount - 1 |-> DefaultEntry]
    /\ UNCHANGED <<table_impl, table_lock, caller, probe_result, store_log, table_ops>>

(* TranspositionTable::Probe(key, entry) *)
SeqProbe ==
    \E key \in SeqKeys :
        /\ SeqCalled("Probe", key, NoCall, FALSE)
        /\ probe_result' = [probe_result EXCEPT ![1] =
               IF table_impl = "atomic" THEN ProbeAtomic(table_key, table_data, key)
               ELSE ProbeMutex(table_entry, key)]
        /\ UNCHANGED <<table_impl, table_key, table_data, table_entry, table_lock, caller,
                       store_log, table_ops>>

(* TranspositionTable::Store(key, depth, score, bound, best_move) *)
SeqStore ==
    \E key \in SeqKeys, in \in SeqStoreInputs :
        /\ SeqCalled("Store", key, in, StoreWrites(key, in.depth))
        /\ IF ~StoreWrites(key, in.depth)
           THEN UNCHANGED <<table_key, table_data, table_entry>>
           ELSE IF table_impl = "atomic"
           THEN /\ table_data' = [table_data EXCEPT ![EntryIndex(key)] =
                       PackEntry(in.best_move, in.score, in.depth, in.bound)]
                /\ table_key' = [table_key EXCEPT ![EntryIndex(key)] = key]
                /\ UNCHANGED table_entry
           ELSE /\ table_entry' = [table_entry EXCEPT ![EntryIndex(key)] =
                       [key |-> key, best_move |-> in.best_move, depth |-> in.depth,
                        score |-> in.score, bound |-> in.bound]]
                /\ UNCHANGED <<table_key, table_data>>
        /\ store_log' = store_log \cup
               {[key |-> key, best_move |-> in.best_move, depth |-> in.depth,
                 score |-> in.score, bound |-> in.bound]}
        /\ UNCHANGED <<table_impl, table_lock, caller, probe_result, table_ops>>

SeqNext ==
    \/ SeqClear
    \/ SeqProbe
    \/ SeqStore

(***************************************************************************)
(* Search control (search.cpp): the iterative deepening of Search and the  *)
(* root move loop of SearchRoot, on one thread or on worker threads.  The  *)
(* root position is given by its number of legal moves and whether its     *)
(* king is in check; a call of AlphaBeta on a root move is one step that   *)
(* returns some score and, through ShouldStop, may set the stop flag once  *)
(* the deadline has passed.                                                *)
(***************************************************************************)
kInfinity == 32000
kMateScore == 30000

MaxRootMoves == 2
MaxSearchDepth == 2
MaxSearchThreads == 2
SearchThreads == 1 .. MaxSearchThreads
(* the values AlphaBeta returns for a root move, seen from the root *)
RootScores == {-15, 40}

(* SearchResult{} *)
DefaultResult == [best_move |-> kNoMove, score |-> 0, depth |-> 0]

(* limits: max_depth, time_ms, infinite and whether limits.stop is set;
   threads: the thread count passed to Search; root_moves, root_in_check: the
   root position; stop_flag: the flag stop_ptr points to; expired: the clock
   has reached the deadline; search_pc: where Search is; depth, result, best,
   have_best: the locals of Search; best_score, best_move, next_index: the
   locals of SearchRoot; worker: the state of each worker thread;
   search_return: the value Search returned; depth_log: for each SearchRoot
   call that returned, its result and whether the stop flag was clear then;
   found_set: Search found the stop flag set after SearchRoot returned;
   root_mode: how the AlphaBeta call of the calling thread goes on after the
   ShouldStop test at its head ("cheap": it returns Evaluate, "full": it
   generates moves); handed: the pairs <<root move, thread>> of the current
   SearchRoot call, thread 0 being the calling thread; returned: the root
   moves and scores that were compared with best_score in the current
   SearchRoot call; entry_log: for the AlphaBeta and Quiescence calls entered
   so far, whether the flag was set at the entry and whether the call
   returned at its head; search_stores: for the TranspositionTable::Store calls
   made so far, the function that made the call and whether the flag was set
   when it did. *)
VARIABLES limits, threads, root_moves, root_in_check, stop_flag, expired, search_pc, depth,
          result, best, have_best, best_score, best_move, next_index, worker,
          search_return, depth_log, found_set, root_mode, handed, returned, entry_log,
          search_stores

searchVars == <<limits, threads, root_moves, root_in_check, stop_flag, expired, search_pc,
                depth, result, best, have_best, best_score, best_move, next_index, worker,
                search_return, depth_log, found_set, root_mode, handed, returned,
                entry_log, search_stores>>

IdleWorker == [pc |-> "none", move |-> kNoMove, mode |-> "none"]

SearchLocalsInit ==
    /\ stop_flag = FALSE
    /\ expired = FALSE
    /\ search_pc = "call"
    /\ depth = 0
    /\ result = DefaultResult
    /\ best = DefaultResult
    /\ have_best = FALSE
    /\ best_score = 0
    /\ best_move = kNoMove
    /\ next_index = 0
    /\ worker = [t \in SearchThreads |-> IdleWorker]
    /\ search_return = DefaultResult
    /\ depth_log = <<>>
    /\ found_set = FALSE
    /\ root_mode = "none"
    /\ handed = {}
    /\ returned = {}
    /\ entry_log = {}
    /\ search_stores = {}

SearchInit ==
    /\ limits \in [max_depth : 0 .. MaxSearchDepth, time_ms : {0, 50}, infinite : BOOLEAN,
                   stop : BOOLEAN]
    /\ threads \in SearchThreads
    /\ root_moves \in 0 .. MaxRootMoves
    /\ root_in_check \in (IF root_moves = 0 THEN BOOLEAN ELSE {FALSE})
    /\ SearchLocalsInit

(* no search is running *)
SearchIdle ==
    /\ limits = [max_depth |-> 0, time_ms |-> 0, infinite |-> FALSE, stop |-> FALSE]
    /\ threads = 1
    /\ root_moves = 0
    /\ root_in_check = FALSE
    /\ SearchLocalsInit

(* stop_ptr: limits.stop, or the local flag when a time limit is given *)
HasStopPtr == limits.stop \/ limits.time_ms > 0

Stopped == HasStopPtr /\ stop_flag

(* the depth cap of the loop; std::numeric_limits<int>::max() is 2^31 - 1 *)
DepthCap ==
    IF limits.infinite THEN 2147483647
    ELSE IF limits.max_depth > 0 THEN limits.max_depth ELSE kMaxPly

(* ShouldStop without its tests: it never reports a stop *)
ShouldStopNever(has_ptr, flag, is_expired) == {[stop |-> FALSE, flag |-> flag]}

(* ShouldStop: what it returns and the flag it leaves.  With the flag clear
   and the deadline passed it looks at the clock only when the node count is
   a multiple of 4096, so both outcomes are possible. *)
ShouldStop(has_ptr, flag, is_expired) ==
    IF ~has_ptr THEN {[stop |-> FALSE, flag |-> flag]}
    ELSE IF flag THEN {[stop |-> TRUE, flag |-> TRUE]}
    ELSE IF is_expired THEN {[stop |-> FALSE, flag |-> FALSE], [stop |-> TRUE, flag |-> TRUE]}
    ELSE {[stop |-> FALSE, flag |-> FALSE]}

(* the root loop runs on the calling thread whatever the thread count *)
OneThreadNever(thread_count, move_count) == FALSE

(* the test that keeps the root loop on the calling thread *)
OneThread(thread_count, move_count) == thread_count <= 1 \/ move_count < 2

(* the index is read and not advanced *)
FetchKeep(index) == index

(* next_index.fetch_add(1): the value it leaves *)
FetchAdd(index) == index + 1

(* the caller of Search sets the flag limits.stop points to *)
SetStop ==
    /\ limits.stop
    /\ ~stop_flag
    /\ search_pc # "done"
    /\ stop_flag' = TRUE
    /\ UNCHANGED <<limits, threads, root_moves, root_in_check, expired, search_pc, depth,
                   result, best, have_best, best_score, best_move, next_index, worker,
                   search_return, depth_log, found_set, root_mode, handed, returned, entry_log,
                   search_stores>>

(* the clock reaches the deadline *)
DeadlinePasses ==
    /\ limits.time_ms > 0
    /\ ~expired
    /\ search_pc \notin {"call", "done"}
    /\ expired' = TRUE
    /\ UNCHANGED <<limits, threads, root_moves, root_in_check, stop_flag, search_pc, depth,
                   result, best, have_best, best_score, best_move, next_index, worker,
                   search_return, depth_log, found_set, root_mode, handed, returned, entry_log,
                   search_stores>>

(* Search up to the loop: the deadline is taken from the clock *)
SearchBegin ==
    /\ search_pc = "call"
    /\ search_pc' = "loop"
    /\ depth' = 1
    /\ UNCHANGED <<limits, threads, root_moves, root_in_check, stop_flag, expired, result,
                   best, have_best, best_score, best_move, next_index, worker, search_return,
                   depth_log, found_set, root_mode, handed, returned, entry_log, search_stores>>

(* return have_best ? best : result *)
SearchReturn ==
    /\ search_pc' = "done"
    /\ search_return' = IF have_best THEN best ELSE result

(* the loop condition and the deadline test at the head of the loop; depths
   beyond MaxSearchDepth are entered only with the flag set, when the call
   ends at its first stop test *)
LoopHead ==
    /\ search_pc = "loop"
    /\ IF depth > DepthCap \/ (limits.time_ms > 0 /\ expired)
       THEN SearchReturn
       ELSE /\ depth <= MaxSearchDepth \/ Stopped
            /\ search_pc' = "root"
            /\ UNCHANGED search_return
    /\ UNCHANGED <<limits, threads, root_moves, root_in_check, stop_flag, expired, depth,
                   result, best, have_best, best_score, best_move, next_index, worker,
                   depth_log, found_set, root_mode, handed, returned, entry_log, search_stores>>

(* SearchRoot returns: the value and whether the stop flag is clear are logged *)
RootReturns(value, flag) ==
    /\ result' = value
    /\ depth_log' = Append(depth_log, [result |-> value, clear |-> ~(HasStopPtr /\ flag)])
    /\ search_pc' = "returned"

(* the worker threads SearchRoot creates *)
SpawnWorkers(thread_count) ==
    [t \in SearchThreads |->
        IF t <= thread_count THEN [pc |-> "test", move |-> kNoMove, mode |-> "none"]
        ELSE IdleWorker]

(* SearchRoot up to the move loop *)
RootBegin ==
    /\ search_pc = "root"
    /\ handed' = {}
    /\ returned' = {}
    /\ IF root_moves = 0
       THEN /\ RootReturns([best_move |-> kNoMove,
                            score |-> IF root_in_check THEN 0 - kMateScore ELSE 0,
                            depth |-> depth], stop_flag)
            /\ UNCHANGED <<best_score, best_move, next_index, worker>>
       ELSE /\ best_score' = 0 - kInfinity
            /\ best_move' = kNoMove
            /\ next_index' = 0
            /\ IF OneThread(threads, root_moves)
               THEN search_pc' = "moves" /\ UNCHANGED worker
               ELSE /\ search_pc' = "workers"
                    /\ worker' = SpawnWorkers(threads)
            /\ UNCHANGED <<result, depth_log>>
    /\ UNCHANGED <<limits, threads, root_moves, root_in_check, stop_flag, expired, depth, best,
                   have_best, search_return, found_set, root_mode, entry_log, search_stores>>

(* table.Store(position.hash_, depth, ScoreToTt(best_score, 0), Bound::kExact,
   best_move) at the end of SearchRoot *)
RootStore(score, move) ==
    search_stores' = search_stores \cup
        {[site |-> "SearchRoot", late |-> Stopped, args |-> <<depth, score, move>>]}

(* the end of SearchRoot: the result is filled in and stored in the table *)
RootEnd ==
    /\ RootReturns([best_move |-> best_move, score |-> best_score, depth |-> depth], stop_flag)
    /\ RootStore(best_score, best_move)

(* one-thread loop: the loop condition and the stop test before a move *)
NextRootMove ==
    /\ search_pc = "moves"
    /\ IF next_index >= root_moves \/ Stopped
       THEN RootEnd /\ UNCHANGED <<next_index, root_mode>>
       ELSE /\ search_pc' = "make"
            /\ next_index' = next_index + 1
            /\ root_mode' = "none"
            /\ UNCHANGED <<result, depth_log, search_stores>>
    /\ UNCHANGED <<limits, threads, root_moves, root_in_check, stop_flag, expired, depth, best,
                   have_best, best_score, best_move, worker, search_return, found_set, handed,
                   returned, entry_log>>

(* one-thread loop: MakeMove and the call of AlphaBeta for move next_index *)
RootMoveEnter ==
    /\ search_pc = "make"
    /\ search_pc' = "alphabeta"
    /\ handed' = handed \cup {[move |-> next_index, thread |-> 0, late |-> Stopped]}
    /\ UNCHANGED <<limits, threads, root_moves, root_in_check, stop_flag, expired, depth,
                   result, best, have_best, best_score, best_move, next_index, worker,
                   search_return, depth_log, found_set, root_mode, returned, entry_log,
                   search_stores>>

(* the head of an AlphaBeta or Quiescence call: ++nodes and ShouldStop *)
NodeHead(outcome) ==
    /\ stop_flag' = outcome.flag
    /\ entry_log' = entry_log \cup {[stopped |-> Stopped, cheap |-> outcome.stop]}

(* the calling thread enters AlphaBeta for its root move, or a call below it *)
RootNodeEnter ==
    \E outcome \in ShouldStop(HasStopPtr, stop_flag, expired) :
        /\ search_pc = "alphabeta"
        /\ root_mode \in {"none", "full"}
        /\ NodeHead(outcome)
        /\ root_mode' = IF root_mode = "none"
                        THEN (IF outcome.stop THEN "cheap" ELSE "full")
                        ELSE root_mode
        /\ UNCHANGED <<limits, threads, root_moves, root_in_check, expired, search_pc, depth,
                       result, best, have_best, best_score, best_move, next_index, worker,
                       search_return, depth_log, found_set, handed, returned, search_stores>>

(* context.table.Store(key, depth, ScoreToTt(best_score, ply), bound,
   best_move) at the end of an AlphaBeta call that went through its move loop;
   the key, the score and the move of a node below the root are left out *)
NodeStore ==
    search_stores' = search_stores \cup {[site |-> "AlphaBeta", late |-> Stopped, args |-> <<>>]}

(* the AlphaBeta call of the calling thread, or a call below it, reaches its
   end: depth - 1 > 0, so the call is not handed on to Quiescence, and it
   passed the ShouldStop test at its head *)
RootNodeStore ==
    /\ search_pc = "alphabeta"
    /\ root_mode = "full"
    /\ depth > 1
    /\ NodeStore
    /\ UNCHANGED <<limits, threads, root_moves, root_in_check, stop_flag, expired, search_pc,
                   depth, result, best, have_best, best_score, best_move, next_index, worker,
                   search_return, depth_log, found_set, root_mode, handed, returned, entry_log>>

(* no stop test between the return of AlphaBeta and the comparison *)
NoTestAfterCall == FALSE

(* the stop test of SearchRoot after AlphaBeta returned and the move was
   undone, lines 372 and 403 *)
StoppedAfterCall == Stopped

(* best_score and best_move after a root move returned score *)
BetterScore(score, move) ==
    /\ best_score' = IF score > best_score THEN score ELSE best_score
    /\ best_move' = IF score > best_score THEN move ELSE best_move
    /\ returned' = returned \cup {[move |-> move, score |-> score]}

(* one-thread loop: AlphaBeta returns for move next_index; the stop test after
   it, then the best move and alpha *)
RootMoveSearched ==
    \E score \in RootScores :
        /\ search_pc = "alphabeta"
        /\ root_mode # "none"
        /\ IF StoppedAfterCall
           THEN /\ RootEnd
                /\ UNCHANGED <<best_score, best_move, returned>>
           ELSE /\ BetterScore(score, next_index)
                /\ IF score >= kInfinity
                   THEN /\ RootReturns([best_move |-> next_index, score |-> score,
                                        depth |-> depth], stop_flag)
                        /\ RootStore(score, next_index)
                   ELSE /\ search_pc' = "moves"
                        /\ UNCHANGED <<result, depth_log, search_stores>>
        /\ UNCHANGED <<limits, threads, root_moves, root_in_check, stop_flag, expired, depth,
                       best, have_best, next_index, worker, search_return, found_set,
                       root_mode, handed, entry_log>>

WorkerExit == [pc |-> "exit", move |-> kNoMove, mode |-> "none"]

(* a worker thread: the stop test at the head of its loop *)
WorkerTest(t) ==
    /\ search_pc = "workers"
    /\ worker[t].pc = "test"
    /\ worker' = [worker EXCEPT ![t] =
           IF Stopped THEN WorkerExit ELSE [pc |-> "fetch", move |-> kNoMove, mode |-> "none"]]
    /\ UNCHANGED <<limits, threads, root_moves, root_in_check, stop_flag, expired, search_pc,
                   depth, result, best, have_best, best_score, best_move, next_index,
                   search_return, depth_log, found_set, root_mode, handed, returned, entry_log,
                   search_stores>>

(* a worker thread: next_index.fetch_add(1), the test of the index, MakeMove
   and the call of AlphaBeta *)
WorkerFetch(t) ==
    /\ search_pc = "workers"
    /\ worker[t].pc = "fetch"
    /\ next_index' = FetchAdd(next_index)
    /\ IF next_index >= root_moves
       THEN worker' = [worker EXCEPT ![t] = WorkerExit] /\ UNCHANGED handed
       ELSE /\ worker' = [worker EXCEPT ![t] =
                   [pc |-> "alphabeta", move |-> next_index + 1, mode |-> "none"]]
            /\ handed' = handed \cup {[move |-> next_index + 1, thread |-> t,
                                       late |-> Stopped]}
    /\ UNCHANGED <<limits, threads, root_moves, root_in_check, stop_flag, expired, search_pc,
                   depth, result, best, have_best, best_score, best_move, search_return,
                   depth_log, found_set, root_mode, returned, entry_log, search_stores>>

(* a worker thread enters AlphaBeta for its root move, or a call below it *)
WorkerNodeEnter(t) ==
    \E outcome \in ShouldStop(HasStopPtr, stop_flag, expired) :
        /\ search_pc = "workers"
        /\ worker[t].pc = "alphabeta"
        /\ worker[t].mode \in {"none", "full"}
        /\ NodeHead(outcome)
        /\ worker' = [worker EXCEPT ![t].mode =
               IF worker[t].mode = "none"
               THEN (IF outcome.stop THEN "cheap" ELSE "full")
               ELSE worker[t].mode]
        /\ UNCHANGED <<limits, threads, root_moves, root_in_check, expired, search_pc, depth,
                       result, best, have_best, best_score, best_move, next_index,
                       search_return, depth_log, found_set, root_mode, handed, returned,
                       search_stores>>

(* the AlphaBeta call of a worker thread, or a call below it, reaches its end *)
WorkerNodeStore(t) ==
    /\ search_pc = "workers"
    /\ worker[t].pc = "alphabeta"
    /\ worker[t].mode = "full"
    /\ depth > 1
    /\ NodeStore
    /\ UNCHANGED <<limits, threads, root_moves, root_in_check, stop_flag, expired, search_pc,
                   depth, result, best, have_best, best_score, best_move, next_index, worker,
                   search_return, depth_log, found_set, root_mode, handed, returned, entry_log>>

(* a worker thread: AlphaBeta returns; the stop test, then best under the mutex *)
WorkerSearched(t) ==
    \E score \in RootScores :
        /\ search_pc = "workers"
        /\ worker[t].pc = "alphabeta"
        /\ worker[t].mode # "none"
        /\ IF StoppedAfterCall
           THEN /\ worker' = [worker EXCEPT ![t] = WorkerExit]
                /\ UNCHANGED <<best_score, best_move, returned>>
           ELSE /\ worker' = [worker EXCEPT ![t] =
                       [pc |-> "test", move |-> kNoMove, mode |-> "none"]]
                /\ BetterScore(score, worker[t].move)
        /\ UNCHANGED <<limits, threads, root_moves, root_in_check, stop_flag, expired,
                       search_pc, depth, result, best, have_best, next_index, search_return,
                       depth_log, found_set, root_mode, handed, entry_log, search_stores>>

(* the joins: every worker has left its loop *)
WorkersJoined ==
    /\ search_pc = "workers"
    /\ \A t \in SearchThreads : worker[t].pc \in {"exit", "none"}
    /\ RootEnd
    /\ worker' = [t \in SearchThreads |-> IdleWorker]
    /\ UNCHANGED <<limits, threads, root_moves, root_in_check, stop_flag, expired, depth, best,
                   have_best, best_score, best_move, next_index, search_return, found_set,
                   root_mode, handed, returned, entry_log>>

(* the cancelled result replaces best whatever was completed before *)
PromoteAlways(was_best, had_best, value, stopped) ==
    [best |-> value, have_best |-> had_best \/ ~stopped, break |-> stopped]

(* Search after SearchRoot returned: a depth that ended with the flag set is
   kept only if no depth was completed before *)
Promote(was_best, had_best, value, stopped) ==
    IF stopped
    THEN [best |-> IF had_best THEN was_best ELSE value, have_best |-> had_best,
          break |-> TRUE]
    ELSE [best |-> value, have_best |-> TRUE, break |-> FALSE]

(* the stop test of Search after SearchRoot, and ++depth *)
AfterRoot ==
    /\ search_pc = "returned"
    /\ LET next == Promote(best, have_best, result, Stopped) IN
       /\ best' = next.best
       /\ have_best' = next.have_best
       /\ found_set' = Stopped
       /\ IF next.break
          THEN /\ search_pc' = "done"
               /\ search_return' = IF next.have_best THEN next.best ELSE result
               /\ UNCHANGED depth
          ELSE /\ search_pc' = "loop"
               /\ depth' = depth + 1
               /\ UNCHANGED search_return
    /\ UNCHANGED <<limits, threads, root_moves, root_in_check, stop_flag, expired, result,
                   best_score, best_move, next_index, worker, depth_log, root_mode, handed,
                   returned, entry_log, search_stores>>

(* the steps of the thread that called Search *)
CallerSteps ==
    \/ SearchBegin
    \/ LoopHead
    \/ RootBegin
    \/ NextRootMove
    \/ RootMoveEnter
    \/ RootNodeEnter
    \/ RootNodeStore
    \/ RootMoveSearched
    \/ WorkersJoined
    \/ AfterRoot

(* the steps of worker thread t *)
WorkerSteps(t) ==
    \/ WorkerTest(t)
    \/ WorkerFetch(t)
    \/ WorkerNodeEnter(t)
    \/ WorkerNodeStore(t)
    \/ WorkerSearched(t)

SearchNext ==
    \/ SetStop
    \/ DeadlinePasses
    \/ CallerSteps
    \/ \E t \in SearchThreads : WorkerSteps(t)


(***************************************************************************)
(* The position command of the UCI front end (uci.cpp)                     *)
(***************************************************************************)
(* the move texts given after "moves" *)
UciInputs ==
    << <<"e", "2", "e", "4">>, <<"e", "7", "e", "5">>, <<"e", "1", "g", "1">>,
       <<"e", "5", "d", "6">>, <<"a", "7", "a", "8", "q">>, <<"a", "7", "a", "8">>,
       <<"a", "7", "b", "8">>, <<"e", "2", "e", "4", "q">>, <<"0", "0", "0", "0">>,
       <<>> >>

MaxUciMoves == 2

(* last_uci: the text given to the last ApplyUciMove; applied: its return
   value; uci_pc: "moves" while ApplyMoves goes through the move texts of a
   position command; uci_ply: the texts it has taken. *)
VARIABLES last_uci, applied, uci_pc, uci_ply

uciVars == <<last_uci, applied, uci_pc, uci_ply>>

UciIdle ==
    /\ last_uci = <<>>
    /\ applied = FALSE
    /\ uci_pc = "idle"
    /\ uci_ply = 0

(* SetPositionFromTokens up to the moves: startpos or a FEN text *)
UciSetPosition ==
    /\ CallSetStartPosition \/ CallLoadFen
    /\ last_uci' = <<>>
    /\ applied' = FALSE
    /\ uci_pc' = IF ok' THEN "moves" ELSE "idle"
    /\ uci_ply' = 0

(* ApplyMoves: one move text; the loop ends at the first text that is refused *)
UciApplyMove ==
    /\ uci_pc = "moves"
    /\ uci_ply < MaxUciMoves
    /\ \E u \in 1 .. Len(UciInputs) :
      \E done \in {ApplyUciMove(position, UciInputs[u])} :
        /\ position' = done.pos
        /\ prev' = position
        /\ op' = "ApplyUciMove"
        /\ last_move' = done.move
        /\ moves' = <<>>
        /\ moves_valid' = FALSE
        /\ last_uci' = UciInputs[u]
        /\ applied' = done.ok
        /\ uci_pc' = IF done.ok THEN "moves" ELSE "idle"
        /\ uci_ply' = uci_ply + 1
        /\ UNCHANGED <<stack, edits, ok, last_fen, origin>>

UciNext ==
    \/ UciSetPosition
    \/ UciApplyMove

(***************************************************************************)
(* Mate scores in the transposition table (search.cpp)                     *)
(***************************************************************************)
kMateThreshold == 29000

ScoreToTt(score, ply) ==
    IF score > kMateThreshold THEN score + ply
    ELSE IF score < 0 - kMateThreshold THEN score - ply
    ELSE score

(* the adjustment of ScoreToTt applied a second time *)
ScoreFromTtSameSign(score, ply) ==
    IF score > kMateThreshold THEN score + ply
    ELSE IF score < 0 - kMateThreshold THEN score - ply
    ELSE score

ScoreFromTt(score, ply) ==
    IF score > kMateThreshold THEN score - ply
    ELSE IF score < 0 - kMateThreshold THEN score + ply
    ELSE score

(* the scores of the search lie between -kMateScore and kMateScore; the ply
   of a node is at most the depth of the search: the plies 0 .. MaxScorePly
   and kMaxPly are taken *)
MaxScorePly == 2
ScoreInputs == (0 - kMateScore) .. kMateScore
PlyInputs == (0 .. MaxScorePly) \cup {kMaxPly}

(* score_in, ply_in: the score and the ply of a node; tt_score: the score
   given to Store; score_out: the score taken from the entry at the same
   ply; score_pc: how far the node has come. *)
VARIABLES score_in, ply_in, tt_score, score_out, score_pc

scoreVars == <<score_in, ply_in, tt_score, score_out, score_pc>>

ScoreIdle ==
    /\ score_in = 0
    /\ ply_in = 0
    /\ tt_score = 0
    /\ score_out = 0
    /\ score_pc = "idle"

ScoreInit ==
    /\ score_in \in ScoreInputs
    /\ ply_in \in PlyInputs
    /\ tt_score = 0
    /\ score_out = 0
    /\ score_pc = "node"

(* AlphaBeta stores the score of the node *)
CallScoreToTt ==
    /\ score_pc = "node"
    /\ tt_score' = ScoreToTt(score_in, ply_in)
    /\ score_pc' = "stored"
    /\ UNCHANGED <<score_in, ply_in, score_out>>

(* AlphaBeta takes the score of the entry it probed *)
CallScoreFromTt ==
    /\ score_pc = "stored"
    /\ score_out' = ScoreFromTt(tt_score, ply_in)
    /\ score_pc' = "probed"
    /\ UNCHANGED <<score_in, ply_in, tt_score>>

ScoreNext ==
    \/ CallScoreToTt
    \/ CallScoreFromTt

(***************************************************************************)
(* FEN output of the caller's position, loaded again                       *)
(***************************************************************************)
(* 4k3/8/8/8/8/8/8/4K3 b - - 49 120 *)
FenLongClocks ==
    <<"4", "k", "3", "/", "8", "/", "8", "/", "8", "/", "8", "/", "8", "/", "8", "/",
      "4", "K", "3", " ", "b", " ", "-", " ", "-", " ", "4", "9", " ", "1", "2", "0">>
(* 4k3/8/8/8/4P3/8/8/4K3 b - e3 007 70000 *)
FenWrappedClocks ==
    <<"4", "k", "3", "/", "8", "/", "8", "/", "8", "/", "4", "P", "3", "/", "8", "/",
      "8", "/", "4", "K", "3", " ", "b", " ", "-", " ", "e", "3", " ", "0", "0", "7",
      " ", "7", "0", "0", "0", "0">>
FenClockInputs == <<FenLongClocks, FenWrappedClocks>>

NotReloaded == [ok |-> FALSE, pos |-> NewPosition]

(* fen_out: the text ToFen returned for the position as it is now, <<>> when
   it was not called since the position changed; reloaded: what LoadFen made
   of that text in a new Position. *)
VARIABLES fen_out, reloaded

fenVars == <<fen_out, reloaded>>

FenIdle ==
    /\ fen_out = <<>>
    /\ reloaded = NotReloaded

CallLoadFenClocks ==
    \E f \in 1 .. Len(FenClockInputs) :
        \E loaded \in {LoadFen(position, FenClockInputs[f])} :
            /\ edits = 0
            /\ Reset("LoadFen", loaded.pos, loaded.ok, Len(FenInputs) + f, "LoadFen")
            /\ UNCHANGED edits

(* ToFen(position), then LoadFen of the text into a new Position *)
CallToFen ==
    /\ fen_out = <<>>
    /\ fen_out' = ToFen(position)
    /\ reloaded' = LoadFen(NewPosition, ToFen(position))
    /\ UNCHANGED posVars

(***************************************************************************)
(* Perft called on a position that was just set up (perft.cpp)             *)
(***************************************************************************)
(* r3k2r/8/8/8/8/8/8/R3K2R w KQkq - 0 1 *)
FenAllRights ==
    <<"r", "3", "k", "2", "r", "/", "8", "/", "8", "/", "8", "/", "8", "/", "8", "/",
      "8", "/", "R", "3", "K", "2", "R", " ", "w", " ", "K", "Q", "k", "q", " ", "-",
      " ", "0", " ", "1">>

MaxPerftDepth == 2
MaxPerftCalls == 2

(* perft_depth, perft_nodes: the depth given to the last Perft call and the
   count it returned; perft_calls: the Perft calls made so far. *)
VARIABLES perft_depth, perft_nodes, perft_calls

perftVars == <<perft_depth, perft_nodes, perft_calls>>

PerftIdle ==
    /\ perft_depth = 0
    /\ perft_nodes = 0
    /\ perft_calls = 0

CallLoadFenAllRights ==
    \E loaded \in {LoadFen(position, FenAllRights)} :
        /\ edits = 0
        /\ Reset("LoadFen", loaded.pos, loaded.ok, Len(FenInputs) + Len(FenClockInputs) + 1,
                 "LoadFen")
        /\ UNCHANGED edits

(* a new Position is set up once, before the Perft calls *)
PerftSetUp ==
    /\ op = "Position"
    /\ CallSetStartPosition \/ CallLoadFen \/ CallLoadFenAllRights
    /\ UNCHANGED perftVars

CallPerft ==
    /\ op # "Position"
    /\ perft_calls < MaxPerftCalls
    /\ \E d \in 0 .. MaxPerftDepth :
         \E done \in {Perft(position, d)} :
            /\ position' = done.pos
            /\ prev' = position
            /\ op' = "Perft"
            /\ last_move' = kNoMove
            /\ moves' = <<>>
            /\ moves_valid' = FALSE
            /\ perft_depth' = d
            /\ perft_nodes' = done.nodes
            /\ perft_calls' = perft_calls + 1
            /\ UNCHANGED <<stack, edits, ok, last_fen, origin>>

PerftNext ==
    \/ PerftSetUp
    \/ CallPerft

(***************************************************************************)
(* The move ordering of one AlphaBeta context: UpdateHistory at the beta   *)
(* cut-offs and OrderMoves at the nodes                                    *)
(***************************************************************************)
MaxHistoryCalls == 2
MaxOrderCalls == 1
(* e2e3, g1f3 and the capture e4xd5 *)
OrderQuiet == EncodeMove(12, 20, kPawn, kNone, kNone, kFlagNone)
OrderQuietOther == EncodeMove(6, 21, kKnight, kNone, kNone, kFlagNone)
OrderCapture == EncodeMove(28, 35, kPawn, kPawn, kNone, kFlagNone)
OrderMoveInputs == {OrderQuiet, OrderQuietOther, OrderCapture}
(* the move vectors: the sequences of the moves above without repetition *)
OrderLists ==
    UNION { { list \in [1 .. n -> OrderMoveInputs] :
                \A i, j \in 1 .. n : i # j => list[i] # list[j] } : n \in 0 .. 3 }
(* plies of the node; the last one is beyond kMaxPly - 1 *)
OrderPlies == {0, 1, 70}
(* the depth of the node that cuts off; Search takes any max_depth *)
HistoryDepths == {1, 1000}

(* context: the SearchContext of the thread; order_in, order_tt, order_ply:
   the arguments of the last OrderMoves call; ordered: the vector it left;
   order_calls: OrderMoves calls so far; history_calls: UpdateHistory calls
   so far; history_call: the arguments of the last UpdateHistory call. *)
VARIABLES context, order_in, order_tt, order_ply, ordered, order_calls, history_calls, history_call

orderVars == <<context, order_in, order_tt, order_ply, ordered, order_calls, history_calls, history_call>>

OrderIdle ==
    /\ context = NewContext
    /\ order_in = <<>>
    /\ order_tt = kNoMove
    /\ order_ply = 0
    /\ ordered = <<>>
    /\ order_calls = 0
    /\ history_calls = 0
    /\ history_call = [move |-> kNoMove, depth |-> 0, ply |-> 0]

(* AlphaBeta at a beta cut-off: UpdateHistory(context, move, depth, ply) *)
CallUpdateHistory ==
    \E move \in OrderMoveInputs, search_depth \in HistoryDepths, ply \in OrderPlies :
        /\ history_calls < MaxHistoryCalls
        /\ context' = UpdateHistory(context, move, search_depth, ply)
        /\ history_calls' = history_calls + 1
        /\ history_call' = [move |-> move, depth |-> search_depth, ply |-> ply]
        /\ UNCHANGED <<order_in, order_tt, order_ply, ordered, order_calls>>

(* AlphaBeta after GenerateLegalMoves: OrderMoves(moves, tt_move, &context, ply) *)
CallOrderMoves ==
    \E list \in OrderLists, tt_move \in OrderMoveInputs \cup {kNoMove}, ply \in OrderPlies :
        /\ order_calls < MaxOrderCalls
        /\ order_in' = list
        /\ order_tt' = tt_move
        /\ order_ply' = ply
        /\ ordered' = OrderMoves(list, tt_move, context, ply)
        /\ order_calls' = order_calls + 1
        /\ UNCHANGED <<context, history_calls, history_call>>

OrderNext ==
    \/ CallUpdateHistory
    \/ CallOrderMoves

(***************************************************************************)
(* Null moves made on the position and taken back, as AlphaBeta does       *)
(***************************************************************************)
MaxNullMoves == 2

(* null_states: the NullState of every null move made and not yet undone,
   with the position it was made from. *)
VARIABLES null_states

nullVars == <<null_states>>

NullIdle == null_states = <<>>

NullCalled(name, after, before) ==
    /\ position' = after
    /\ prev' = before
    /\ op' = name
    /\ last_move' = kNoMove
    /\ moves' = <<>>
    /\ moves_valid' = FALSE
    /\ UNCHANGED <<stack, edits, ok, last_fen, origin>>

CallMakeNullMove ==
    \E made \in {MakeNullMove(position)} :
        /\ op # "Position"
        /\ Len(null_states) < MaxNullMoves
        /\ NullCalled("MakeNullMove", made.pos, position)
        /\ null_states' = Append(null_states, [state |-> made.state, from |-> position])

CallUndoNullMove ==
    /\ null_states # <<>>
    /\ LET top == null_states[Len(null_states)] IN
       NullCalled("UndoNullMove", UndoNullMove(position, top.state), top.from)
    /\ null_states' = SubSeq(null_states, 1, Len(null_states) - 1)

NullNext ==
    \/ CallMakeNullMove
    \/ CallUndoNullMove

(***************************************************************************)
(* One AlphaBeta node: the window, the probe, the null move, the move loop *)
(* and the Store.  The calls below the node are taken by what they return. *)
(***************************************************************************)
(* the comparisons with < in place of <= and >= *)
BoundOfStrict(score, low, high) ==
    IF score < low THEN kBoundUpper
    ELSE IF score > high THEN kBoundLower
    ELSE kBoundExact

(* the bound of the entry, lines 311-318 *)
BoundOf(score, low, high) ==
    IF score <= low THEN kBoundUpper
    ELSE IF score >= high THEN kBoundLower
    ELSE kBoundExact

MaxNodeMoves == 2
(* every call site passes alpha < beta: the full window of the root, a
   narrowed window, the null window of the null-move search *)
NodeWindows ==
    { [alpha |-> 0 - kInfinity, beta |-> kInfinity],
      [alpha |-> -50, beta |-> 50],
      [alpha |-> 10, beta |-> 11] }
NodeDepths == {0, 1, 3}
NodePlies == {0, 3}
(* what -AlphaBeta(...) of a child, Quiescence or Evaluate returns *)
NodeScores == {-29998, -50, 20, 50, 29997}
(* what Probe leaves in entry; depth 0 is below every node depth here *)
NodeProbes ==
    { [hit |-> FALSE, depth |-> -1, score |-> 0, bound |-> kBoundExact],
      [hit |-> TRUE, depth |-> 0, score |-> 30, bound |-> kBoundExact],
      [hit |-> TRUE, depth |-> 5, score |-> 30, bound |-> kBoundExact],
      [hit |-> TRUE, depth |-> 5, score |-> 30, bound |-> kBoundLower],
      [hit |-> TRUE, depth |-> 5, score |-> 30, bound |-> kBoundUpper],
      [hit |-> TRUE, depth |-> 5, score |-> 29999, bound |-> kBoundLower] }

NoNodeStore == [depth |-> -1, score |-> 0, bound |-> kBoundExact, best_move |-> 0]
NoNodeCall == [depth |-> 0, alpha |-> 0, beta |-> 0, ply |-> 0]

(* ab_pc: the place of the node in AlphaBeta; ab_in: the arguments of the
   call; alpha_orig, beta_orig: the locals of lines 238-239; ab_alpha,
   ab_beta: the locals alpha and beta; ab_best_score, ab_best_move: the
   locals of lines 289-290 (moves are numbered from 1, 0 is kNoMove);
   ab_moves: the size of the move list; ab_index: the moves the loop has
   taken; ab_store: the arguments of
   the Store call; ab_return: the value returned. *)
VARIABLES ab_pc, ab_in, alpha_orig, beta_orig, ab_alpha, ab_beta, ab_best_score,
          ab_best_move, ab_moves, ab_index, ab_store, ab_return

nodeVars == <<ab_pc, ab_in, alpha_orig, beta_orig, ab_alpha, ab_beta, ab_best_score,
              ab_best_move, ab_moves, ab_index, ab_store, ab_return>>

NodeIdle ==
    /\ ab_pc = "idle"
    /\ ab_in = NoNodeCall
    /\ alpha_orig = 0
    /\ beta_orig = 0
    /\ ab_alpha = 0
    /\ ab_beta = 0
    /\ ab_best_score = 0 - kInfinity
    /\ ab_best_move = 0
    /\ ab_moves = 0
    /\ ab_index = 0
    /\ ab_store = NoNodeStore
    /\ ab_return = 0

NodeReturns(value) ==
    /\ ab_pc' = "returned"
    /\ ab_return' = value

(* lines 228-239: the call, the depth test, ShouldStop, the copies of the
   window *)
NodeEnter ==
    \E search_depth \in NodeDepths, window \in NodeWindows, ply \in NodePlies,
       stopped \in BOOLEAN, value \in NodeScores :
        /\ ab_pc = "idle"
        /\ ab_in' = [depth |-> search_depth, alpha |-> window.alpha, beta |-> window.beta,
                     ply |-> ply]
        /\ ab_alpha' = window.alpha
        /\ ab_beta' = window.beta
        /\ IF search_depth = 0 \/ stopped
           THEN /\ NodeReturns(value)
                /\ UNCHANGED <<alpha_orig, beta_orig>>
           ELSE /\ alpha_orig' = window.alpha
                /\ beta_orig' = window.beta
                /\ ab_pc' = "probe"
                /\ UNCHANGED ab_return
        /\ UNCHANGED <<ab_best_score, ab_best_move, ab_moves, ab_index, ab_store>>

(* lines 244-260: the probe and the narrowing of the window *)
NodeProbe ==
    \E entry \in NodeProbes :
        /\ ab_pc = "probe"
        /\ LET tt_score_here == ScoreFromTt(entry.score, ab_in.ply)
               usable == entry.hit /\ entry.depth >= ab_in.depth
               raised == IF usable /\ entry.bound = kBoundLower /\ tt_score_here > ab_alpha
                         THEN tt_score_here ELSE ab_alpha
               lowered == IF usable /\ entry.bound = kBoundUpper /\ tt_score_here < ab_beta
                          THEN tt_score_here ELSE ab_beta
           IN /\ ab_alpha' = IF usable /\ entry.bound = kBoundExact THEN ab_alpha ELSE raised
              /\ ab_beta' = IF usable /\ entry.bound = kBoundExact THEN ab_beta ELSE lowered
              /\ IF usable /\ (entry.bound = kBoundExact \/ raised >= lowered)
                 THEN NodeReturns(tt_score_here)
                 ELSE ab_pc' = "null" /\ UNCHANGED ab_return
        /\ UNCHANGED <<ab_in, alpha_orig, beta_orig, ab_best_score, ab_best_move, ab_moves,
                       ab_index, ab_store>>

(* lines 262-285: the null-move search, GenerateLegalMoves, the node without
   moves *)
NodeNullMoveAndGenerate ==
    \E in_check \in BOOLEAN, material \in BOOLEAN, null_score \in NodeScores,
       count \in 0 .. MaxNodeMoves :
        /\ ab_pc = "null"
        /\ IF ~in_check /\ ab_in.depth >= 3 /\ material /\ null_score >= ab_beta
           THEN NodeReturns(null_score) /\ UNCHANGED <<ab_moves, ab_best_score, ab_best_move>>
           ELSE IF count = 0
           THEN /\ NodeReturns(IF in_check THEN ab_in.ply - kMateScore ELSE 0)
                /\ UNCHANGED <<ab_moves, ab_best_score, ab_best_move>>
           ELSE /\ ab_pc' = "loop"
                /\ ab_moves' = count
                /\ ab_best_score' = 0 - kInfinity
                /\ ab_best_move' = 0
                /\ UNCHANGED ab_return
        /\ UNCHANGED <<ab_in, alpha_orig, beta_orig, ab_alpha, ab_beta, ab_index, ab_store>>

(* lines 292-309: one move of the loop *)
NodeMove ==
    \E score \in NodeScores :
        /\ ab_pc = "loop"
        /\ LET alpha_after == IF score > ab_alpha THEN score ELSE ab_alpha IN
           /\ ab_best_score' = IF score > ab_best_score THEN score ELSE ab_best_score
           /\ ab_best_move' = IF score > ab_best_score THEN ab_index + 1 ELSE ab_best_move
           /\ ab_alpha' = alpha_after
           /\ ab_index' = ab_index + 1
           /\ ab_pc' = IF alpha_after >= ab_beta \/ ab_index + 1 = ab_moves
                       THEN "classify" ELSE "loop"
        /\ UNCHANGED <<ab_in, alpha_orig, beta_orig, ab_beta, ab_moves, ab_store, ab_return>>

(* lines 311-320: the bound, the Store and the return *)
NodeClassifyAndStore ==
    /\ ab_pc = "classify"
    /\ ab_store' = [depth |-> ab_in.depth, score |-> ScoreToTt(ab_best_score, ab_in.ply),
                    bound |-> BoundOf(ab_best_score, alpha_orig, beta_orig),
                    best_move |-> ab_best_move]
    /\ NodeReturns(ab_best_score)
    /\ UNCHANGED <<ab_in, alpha_orig, beta_orig, ab_alpha, ab_beta, ab_best_score,
                   ab_best_move, ab_moves, ab_index>>

NodeNext ==
    \/ NodeEnter
    \/ NodeProbe
    \/ NodeNullMoveAndGenerate
    \/ NodeMove
    \/ NodeClassifyAndStore

(***************************************************************************)
(* Search on a Position: the moves SearchRoot, AlphaBeta and Quiescence    *)
(* make and undo.  Scores and table entries are not kept: a call may       *)
(* return where a score or an entry could make it return.                  *)
(***************************************************************************)
MaxTreeDepth == 4
MaxTreeThreads == 2
(* MakeMove and MakeNullMove calls below the root moves in one Search *)
MaxDeepMakes == 1
TreeThreads == 1 .. MaxTreeThreads
(* 7k/8/8/8/8/8/8/K6n w - - 0 1 *)
FenKnightEnding ==
    <<"7", "k", "/", "8", "/", "8", "/", "8", "/", "8", "/", "8", "/", "8", "/", "K", "6",
      "n", " ", "w", " ", "-", " ", "-", " ", "0", " ", "1">>
(* the positions Search is given: FenEnPassant, FenOccupiedTarget, FenNoKings
   and FenKnightEnding *)
TreeFens == <<FenEnPassant, FenOccupiedTarget, FenNoKings, FenKnightEnding>>
(* limits.max_depth *)
TreeDepths == {1, MaxTreeDepth}

NoState == [none |-> TRUE]

(* an AlphaBeta or Quiescence call that was entered: AlphaBeta with depth 0
   is Quiescence (line 230) *)
NodeFrame(search_depth, ply) ==
    [fn |-> IF search_depth = 0 THEN "Quiescence" ELSE "AlphaBeta",
     depth |-> search_depth, ply |-> ply, pc |-> "head", list |-> <<>>, index |-> 0,
     move |-> kNoMove, state |-> NoState]

(* lines 262-267 and 176-181 *)
InCheck(pos) ==
    LET king_square == KingSquare(pos, pos.side_to_move) IN
    /\ king_square # kNoSquare
    /\ IsSquareAttacked(pos, king_square, OppositeColor(pos.side_to_move))

HasNonPawnMaterial(pos) ==
    \E type \in {kKnight, kBishop, kRook, kQueen} :
        pos.piece_bb[pos.side_to_move][type] # {}

TacticalOnly(list) == SelectSeq(list, IsTacticalMove)

TopFrame(w) == w.frames[Len(w.frames)]

WithTop(w, frame) == [w.frames EXCEPT ![Len(w.frames)] = frame]

(* the call on top returns *)
NodeReturn(w, pos) ==
    [pos |-> pos, frames |-> SubSeq(w.frames, 1, Len(w.frames) - 1), used |-> 0]

(* the node after GenerateLegalMoves left pos and list: the node without
   moves (or without captures) returns, else OrderMoves and the loop *)
NodeGenerated(w, pos, list) ==
    IF list = <<>>
    THEN NodeReturn(w, pos)
    ELSE [pos |-> pos,
          frames |-> WithTop(w, [TopFrame(w) EXCEPT !.pc = "loop", !.index = 0,
                                   !.list = OrderMoves(list, kNoMove, NewContext,
                                                       TopFrame(w).ply)]),
          used |-> 0]

(* GenerateLegalMoves, the captures of Quiescence: lines 281-287 and 194-211 *)
NodeGenerate(w, in_check) ==
    UNION { { NodeGenerated(w, gen.pos, list) :
                list \in {IF TopFrame(w).fn = "Quiescence" /\ ~in_check
                          THEN TacticalOnly(gen.moves) ELSE gen.moves} } :
            gen \in {GenerateLegalMoves(w.pos)} }

(* lines 268-274: MakeNullMove and the call with the reduced depth *)
NodeNullMove(w) ==
    LET top == TopFrame(w)
        reduction == IF top.depth >= 6 THEN 3 ELSE 2
        reduced == IF top.depth - 1 - reduction > 0 THEN top.depth - 1 - reduction ELSE 0
    IN { [pos |-> null_made.pos,
          frames |-> Append(WithTop(w, [top EXCEPT !.pc = "nulled",
                                          !.state = null_made.state]),
                            NodeFrame(reduced, top.ply + 1)),
          used |-> 1] : null_made \in {MakeNullMove(w.pos)} }

(* the head of a call, in_check known.  It returns at once when ShouldStop
   says so, and may when a table entry (AlphaBeta) or the stand-pat score
   (Quiescence, not in check) can end it; otherwise AlphaBeta makes the null
   move when lines 268-269 allow it, and the moves are generated. *)
NodeHeadWith(w, can_make, is_stopped, in_check) ==
    LET top == TopFrame(w)
        may_return == top.fn = "AlphaBeta" \/ ~in_check
    IN IF is_stopped THEN {NodeReturn(w, w.pos)}
       ELSE (IF may_return THEN {NodeReturn(w, w.pos)} ELSE {})
            \cup (IF may_return /\ ~can_make THEN {}
                  ELSE IF top.fn = "AlphaBeta" /\ ~in_check /\ top.depth >= 3
                          /\ HasNonPawnMaterial(w.pos)
                  THEN NodeNullMove(w)
                  ELSE NodeGenerate(w, in_check))

NodeHeadSteps(w, can_make, is_stopped) ==
    UNION { NodeHeadWith(w, can_make, is_stopped, in_check) : in_check \in {InCheck(w.pos)} }

(* lines 275-279: the null-move search returned; UndoNullMove, then the
   return on score >= beta or the moves *)
NodeNulledSteps(w, can_make) ==
    UNION { {NodeReturn(w, undone)}
            \cup (IF can_make
                  THEN NodeGenerate([pos |-> undone,
                                     frames |-> WithTop(w, [TopFrame(w) EXCEPT
                                                              !.state = NoState])],
                                    FALSE)
                  ELSE {}) :
            undone \in {UndoNullMove(w.pos, TopFrame(w).state)} }

(* lines 293-295 and 213-215: MakeMove and the call for the next move *)
NodeMakeStep(w) ==
    LET top == TopFrame(w)
        move == top.list[top.index + 1]
    IN { [pos |-> made.pos,
          frames |-> Append(WithTop(w, [top EXCEPT !.pc = "called", !.move = move,
                                          !.state = made.state]),
                            NodeFrame(IF top.depth > 0 THEN top.depth - 1 ELSE 0,
                                      top.ply + 1)),
          used |-> 1] : made \in {MakeMove(w.pos, move)} }

(* lines 296-308 and 216-223: UndoMove, then the next move, the cut-off or
   the end of the list *)
NodeUndoSteps(w, can_make) ==
    LET top == TopFrame(w) IN
    UNION { {NodeReturn(w, undone)}
            \cup (IF top.index + 1 < Len(top.list) /\ can_make
                  THEN {[pos |-> undone,
                         frames |-> WithTop(w, [top EXCEPT !.pc = "loop",
                                                  !.index = top.index + 1,
                                                  !.move = kNoMove, !.state = NoState]),
                         used |-> 0]}
                  ELSE {}) :
            undone \in {UndoMove(w.pos, top.move, top.state)} }

(* the steps of the call on top of the frames of a thread *)
NodeSteps(w, can_make, is_stopped) ==
    LET top == TopFrame(w) IN
    CASE top.pc = "head" -> NodeHeadSteps(w, can_make, is_stopped)
      [] top.pc = "nulled" -> NodeNulledSteps(w, can_make)
      [] top.pc = "loop" -> NodeMakeStep(w)
      [] top.pc = "called" -> NodeUndoSteps(w, can_make)

NoRootMove == [move |-> kNoMove, state |-> NoState]
IdleLocal == [pc |-> "none", pos |-> NewPosition, frames |-> <<>>, made |-> NoRootMove]

(* tr_pc: where Search is; tr_given: the Position as it was passed in;
   tr_max_depth, tr_threads: the arguments; tr_iter: the depth of the
   iteration; tr_list: the ordered root moves; tr_index: the root moves
   taken (next_index with worker threads); tr_made: the root move the calling
   thread has made; tr_frames: the calls of the calling thread below the
   root move; tr_local: for each worker thread its place, its copy of the
   Position, its calls and its root move; tr_stop: the stop flag; tr_makes:
   the moves made below the root moves so far. *)
VARIABLES tr_pc, tr_given, tr_max_depth, tr_threads, tr_iter, tr_list, tr_index, tr_made,
          tr_frames, tr_local, tr_stop, tr_makes

treeVars == <<tr_pc, tr_given, tr_max_depth, tr_threads, tr_iter, tr_list, tr_index, tr_made,
              tr_frames, tr_local, tr_stop, tr_makes>>

TreeIdle ==
    /\ tr_pc = "idle"
    /\ tr_given = NewPosition
    /\ tr_max_depth = 0
    /\ tr_threads = 1
    /\ tr_iter = 0
    /\ tr_list = <<>>
    /\ tr_index = 0
    /\ tr_made = NoRootMove
    /\ tr_frames = <<>>
    /\ tr_local = [t \in TreeThreads |-> IdleLocal]
    /\ tr_stop = FALSE
    /\ tr_makes = 0

(* a new Position is set up once, before Search *)
TreeSetUp ==
    /\ op = "Position"
    /\ edits = 0
    /\ \E f \in 1 .. Len(TreeFens) :
          \E loaded \in {LoadFen(position, TreeFens[f])} :
              Reset("LoadFen", loaded.pos, loaded.ok, 100 + f, "LoadFen")
    /\ UNCHANGED edits
    /\ UNCHANGED treeVars

(* Search(position, limits, table, threads) is called: lines 444-460 *)
TreeSearch ==
    \E max_depth \in TreeDepths, thread_count \in TreeThreads :
        /\ tr_pc = "idle"
        /\ op # "Position"
        /\ tr_pc' = "root"
        /\ tr_given' = position
        /\ tr_max_depth' = max_depth
        /\ tr_threads' = thread_count
        /\ tr_iter' = 1
        /\ op' = "Search"
        /\ UNCHANGED <<position, stack, moves, moves_valid, ok, last_move, last_fen, prev,
                       edits, origin>>
        /\ UNCHANGED <<tr_list, tr_index, tr_made, tr_frames, tr_local, tr_stop, tr_makes>>

(* the caller, or a thread at the deadline, sets the stop flag *)
TreeSetStop ==
    /\ tr_pc \notin {"idle", "returned"}
    /\ ~tr_stop
    /\ tr_stop' = TRUE
    /\ UNCHANGED posVars
    /\ UNCHANGED <<tr_pc, tr_given, tr_max_depth, tr_threads, tr_iter, tr_list, tr_index,
                   tr_made, tr_frames, tr_local, tr_makes>>

(* SearchRoot, lines 325-349 and 377-386: GenerateLegalMoves on the caller's
   Position, the position without moves, OrderMoves, the choice of the loop,
   the copies of the worker threads *)
TreeRootBegin ==
    /\ tr_pc = "root"
    /\ \E gen \in {GenerateLegalMoves(position)} :
        /\ position' = gen.pos
        /\ tr_list' = OrderMoves(gen.moves, kNoMove, [NewContext EXCEPT !.null = TRUE], 0)
        /\ tr_index' = 0
        /\ IF gen.moves = <<>> THEN tr_pc' = "after_root" /\ UNCHANGED tr_local
           ELSE IF tr_threads <= 1 \/ Len(gen.moves) < 2
           THEN tr_pc' = "loop" /\ UNCHANGED tr_local
           ELSE /\ tr_pc' = "workers"
                /\ tr_local' = [t \in TreeThreads |->
                                  [IdleLocal EXCEPT !.pc = "test", !.pos = gen.pos]]
        /\ UNCHANGED <<stack, moves, moves_valid, op, ok, last_move, last_fen, prev, edits,
                       origin>>
        /\ UNCHANGED <<tr_given, tr_max_depth, tr_threads, tr_iter, tr_made, tr_frames,
                       tr_stop, tr_makes>>

(* one-thread loop, lines 355-361: the stop test, MakeMove, the AlphaBeta call *)
TreeRootMake ==
    /\ tr_pc = "loop"
    /\ IF tr_stop
       THEN /\ tr_pc' = "after_root"
            /\ UNCHANGED <<position, tr_made, tr_frames>>
       ELSE \E made \in {MakeMove(position, tr_list[tr_index + 1])} :
               /\ position' = made.pos
               /\ tr_made' = [move |-> tr_list[tr_index + 1], state |-> made.state]
               /\ tr_frames' = <<NodeFrame(tr_iter - 1, 1)>>
               /\ tr_pc' = "below"
    /\ UNCHANGED <<stack, moves, moves_valid, op, ok, last_move, last_fen, prev, edits,
                   origin>>
    /\ UNCHANGED <<tr_given, tr_max_depth, tr_threads, tr_iter, tr_list, tr_index, tr_local,
                   tr_stop, tr_makes>>

(* the calling thread below its root move *)
TreeCallerStep ==
    /\ tr_pc = "below"
    /\ tr_frames # <<>>
    /\ \E after \in NodeSteps([pos |-> position, frames |-> tr_frames],
                             tr_makes < MaxDeepMakes, tr_stop) :
          /\ position' = after.pos
          /\ tr_frames' = after.frames
          /\ tr_makes' = tr_makes + after.used
    /\ UNCHANGED <<stack, moves, moves_valid, op, ok, last_move, last_fen, prev, edits,
                   origin>>
    /\ UNCHANGED <<tr_pc, tr_given, tr_max_depth, tr_threads, tr_iter, tr_list, tr_index,
                   tr_made, tr_local, tr_stop>>

(* one-thread loop, lines 362-375: UndoMove, the stop test, the next move *)
TreeRootUndo ==
    /\ tr_pc = "below"
    /\ tr_frames = <<>>
    /\ position' = UndoMove(position, tr_made.move, tr_made.state)
    /\ tr_made' = NoRootMove
    /\ tr_index' = tr_index + 1
    /\ tr_pc' = IF tr_stop \/ tr_index + 1 = Len(tr_list) THEN "after_root" ELSE "loop"
    /\ UNCHANGED <<stack, moves, moves_valid, op, ok, last_move, last_fen, prev, edits,
                   origin>>
    /\ UNCHANGED <<tr_given, tr_max_depth, tr_threads, tr_iter, tr_list, tr_frames, tr_local,
                   tr_stop, tr_makes>>

(* a worker thread, lines 390-401: the stop test, the fetch, MakeMove on its
   copy, the AlphaBeta call *)
TreeWorkerFetch(t) ==
    /\ tr_pc = "workers"
    /\ tr_local[t].pc = "test"
    /\ IF tr_stop
       THEN tr_local' = [tr_local EXCEPT ![t].pc = "exit"] /\ UNCHANGED tr_index
       ELSE /\ tr_index' = tr_index + 1
            /\ IF tr_index >= Len(tr_list)
               THEN tr_local' = [tr_local EXCEPT ![t].pc = "exit"]
               ELSE \E made \in {MakeMove(tr_local[t].pos, tr_list[tr_index + 1])} :
                       tr_local' = [tr_local EXCEPT ![t] =
                           [pc |-> "below", pos |-> made.pos,
                            frames |-> <<NodeFrame(tr_iter - 1, 1)>>,
                            made |-> [move |-> tr_list[tr_index + 1],
                                      state |-> made.state]]]
    /\ UNCHANGED posVars
    /\ UNCHANGED <<tr_pc, tr_given, tr_max_depth, tr_threads, tr_iter, tr_list, tr_made,
                   tr_frames, tr_stop, tr_makes>>

(* a worker thread below its root move, on its copy *)
TreeWorkerStep(t) ==
    /\ tr_pc = "workers"
    /\ tr_local[t].pc = "below"
    /\ tr_local[t].frames # <<>>
    /\ \E after \in NodeSteps([pos |-> tr_local[t].pos, frames |-> tr_local[t].frames],
                             tr_makes < MaxDeepMakes, tr_stop) :
          /\ tr_local' = [tr_local EXCEPT ![t].pos = after.pos, ![t].frames = after.frames]
          /\ tr_makes' = tr_makes + after.used
    /\ UNCHANGED posVars
    /\ UNCHANGED <<tr_pc, tr_given, tr_max_depth, tr_threads, tr_iter, tr_list, tr_index,
                   tr_made, tr_frames, tr_stop>>

(* a worker thread, lines 402-405: UndoMove on its copy, the stop test *)
TreeWorkerUndo(t) ==
    /\ tr_pc = "workers"
    /\ tr_local[t].pc = "below"
    /\ tr_local[t].frames = <<>>
    /\ tr_local' = [tr_local EXCEPT ![t] =
           [pc |-> IF tr_stop THEN "exit" ELSE "test",
            pos |-> UndoMove(tr_local[t].pos, tr_local[t].made.move, tr_local[t].made.state),
            frames |-> <<>>, made |-> NoRootMove]]
    /\ UNCHANGED posVars
    /\ UNCHANGED <<tr_pc, tr_given, tr_max_depth, tr_threads, tr_iter, tr_list, tr_index,
                   tr_made, tr_frames, tr_stop, tr_makes>>

(* lines 419-421: the joins; the copies end with their threads *)
TreeJoin ==
    /\ tr_pc = "workers"
    /\ \A t \in TreeThreads : tr_local[t].pc = "exit"
    /\ tr_pc' = "after_root"
    /\ tr_local' = [t \in TreeThreads |-> IdleLocal]
    /\ UNCHANGED posVars
    /\ UNCHANGED <<tr_given, tr_max_depth, tr_threads, tr_iter, tr_list, tr_index, tr_made,
                   tr_frames, tr_stop, tr_makes>>

(* Search, lines 465-475: the stop test after SearchRoot, the next depth, the
   return *)
TreeAfterRoot ==
    /\ tr_pc = "after_root"
    /\ IF tr_stop \/ tr_iter = tr_max_depth
       THEN tr_pc' = "returned" /\ UNCHANGED tr_iter
       ELSE tr_pc' = "root" /\ tr_iter' = tr_iter + 1
    /\ UNCHANGED posVars
    /\ UNCHANGED <<tr_given, tr_max_depth, tr_threads, tr_list, tr_index, tr_made, tr_frames,
                   tr_local, tr_stop, tr_makes>>

TreeNext ==
    \/ TreeSetUp
    \/ TreeSearch
    \/ TreeSetStop
    \/ TreeRootBegin
    \/ TreeRootMake
    \/ TreeCallerStep
    \/ TreeRootUndo
    \/ \E t \in TreeThreads :
          \/ TreeWorkerFetch(t)
          \/ TreeWorkerStep(t)
          \/ TreeWorkerUndo(t)
    \/ TreeJoin
    \/ TreeAfterRoot

(***************************************************************************)
(* The web session: handleSession and Session.Reset.  The engine process   *)
(* is taken by what its calls return: an error, or an answer.              *)
(***************************************************************************)
MaxSessionMessages == 3

RECURSIVE TrimLeft(_)
TrimLeft(text) ==
    IF text # <<>> /\ IsSpace(text[1]) THEN TrimLeft(Tail(text)) ELSE text

RECURSIVE TrimRight(_)
TrimRight(text) ==
    IF text # <<>> /\ IsSpace(text[Len(text)])
    THEN TrimRight(SubSeq(text, 1, Len(text) - 1)) ELSE text

(* strings.TrimSpace *)
TrimSpace(text) == TrimRight(TrimLeft(text))

(* the letters of the colour names, folded to lower case *)
FoldChar(ch) ==
    CASE ch = "B" -> "b" [] ch = "L" -> "l" [] ch = "A" -> "a" [] ch = "C" -> "c"
      [] ch = "K" -> "k" [] OTHER -> ch

(* strings.EqualFold *)
EqualFold(left, right) ==
    /\ Len(left) = Len(right)
    /\ \A i \in 1 .. Len(left) : FoldChar(left[i]) = FoldChar(right[i])

sideToMoveIsWhite(list) == Len(list) % 2 = 0

sideToMoveIsPlayer(list, player_white) ==
    IF player_white THEN sideToMoveIsWhite(list) ELSE ~sideToMoveIsWhite(list)

parsePlayerColor(value, fallback) ==
    IF value = <<>> THEN fallback
    ELSE ~EqualFold(TrimSpace(value), <<"b", "l", "a", "c", "k">>)

(* the movetime message: the value kept *)
ClampMovetime(value) == IF value < 0 THEN 0 ELSE IF value > 10000 THEN 10000 ELSE value

MoveA == <<"a">>
MoveB == <<"b">>
(* what LegalMoves, BestMove, InCheck, NewGame and Fen return *)
LegalAnswers(known_over) ==
    {[err |-> TRUE, list |-> {}], [err |-> FALSE, list |-> {}]}
    \cup (IF known_over THEN {}
          ELSE {[err |-> FALSE, list |-> {MoveA}], [err |-> FALSE, list |-> {MoveA, MoveB}]})
BestAnswers ==
    {[err |-> TRUE, move |-> <<>>], [err |-> FALSE, move |-> MoveA],
     [err |-> FALSE, move |-> <<>>], [err |-> FALSE, move |-> <<"0", "0", "0", "0">>]}
NoBestMove(move) ==
    move = <<>> \/ move = <<"(", "n", "o", "n", "e", ")">> \/ move = <<"0", "0", "0", "0">>
CallAnswers == {[err |-> TRUE], [err |-> FALSE]}

ColorInputs ==
    {<<>>, <<"w", "h", "i", "t", "e">>, <<"b", "l", "a", "c", "k">>,
     <<" ", "B", "l", "a", "c", "k">>}
SessionUciInputs == {<<>>, <<" ">>, MoveA, <<" ", "a">>, MoveB}
MovetimeInputs == {-5, 250, 20000}

(* what a handler leaves: the move list, whether it replied with an error,
   whether the game is known to be over (no legal move, or no best_answer move) *)
Left(list, err, over) == [moves |-> list, err |-> err, over |-> over]

(* the end of the game found: InCheck, then the "Game over" state *)
GameOver(list) == {Left(list, in_check.err, TRUE) : in_check \in CallAnswers}

(* the engine's reply move and the player's moves after it: Reset lines
   475-494, handleSession lines 604-628 *)
EngineReplies(list) ==
    UNION { IF best_answer.err THEN {Left(list, TRUE, FALSE)}
            ELSE IF NoBestMove(best_answer.move) THEN GameOver(list)
            ELSE UNION { IF player_moves.err
                         THEN {Left(Append(list, best_answer.move), TRUE, FALSE)}
                         ELSE IF player_moves.list = {}
                         THEN GameOver(Append(list, best_answer.move))
                         ELSE {Left(Append(list, best_answer.move), FALSE, FALSE)} :
                         player_moves \in LegalAnswers(FALSE) } :
            best_answer \in BestAnswers }

(* Session.Reset after s.moves = nil and s.playerIsWhite = playerIsWhite *)
ResetLeaves(player_white) ==
    UNION { IF new_game.err THEN {Left(<<>>, TRUE, FALSE)}
            ELSE IF player_white THEN {Left(<<>>, FALSE, FALSE)}
            ELSE UNION { IF engine_moves.err THEN {Left(<<>>, TRUE, FALSE)}
                         ELSE IF engine_moves.list = {} THEN GameOver(<<>>)
                         ELSE EngineReplies(<<>>) :
                         engine_moves \in LegalAnswers(FALSE) } :
            new_game \in CallAnswers }

(* the move message, lines 578-630, after LegalMoves answered legal_moves *)
MoveLeaves(list, uci, legal_moves, known_over) ==
    IF uci = <<>> \/ legal_moves.err \/ uci \notin legal_moves.list
    THEN {Left(list, TRUE, known_over)}
    ELSE UNION { IF engine_moves.err THEN {Left(Append(list, uci), TRUE, FALSE)}
                 ELSE IF engine_moves.list = {} THEN GameOver(Append(list, uci))
                 ELSE UNION { IF thinking.err THEN {Left(Append(list, uci), TRUE, FALSE)}
                              ELSE EngineReplies(Append(list, uci)) :
                              thinking \in CallAnswers } :
                 engine_moves \in LegalAnswers(FALSE) }

NoMessage == [type |-> "none", uci |-> <<>>, legal |-> {}, before |-> <<>>]

(* session_pc: "start" before handleSession runs, "waiting" in ws.ReadMessage,
   "closed" after the return; session_moves, playerIsWhite, movetimeMs: the
   fields of the Session; session_over: the game is known to be over;
   session_err: the last reply was an error; session_msg: the last message,
   with the answer of its first LegalMoves call and the move list before it;
   session_count: the messages read. *)
VARIABLES session_pc, session_moves, playerIsWhite, movetimeMs, session_over, session_err,
          session_msg, session_count

sessionVars == <<session_pc, session_moves, playerIsWhite, movetimeMs, session_over,
                 session_err, session_msg, session_count>>

SessionIdle ==
    /\ session_pc = "start"
    /\ session_moves = <<>>
    /\ playerIsWhite = TRUE
    /\ movetimeMs = 0
    /\ session_over = FALSE
    /\ session_err = FALSE
    /\ session_msg = NoMessage
    /\ session_count = 0

(* handleSession, lines 512-540: startEngine, Reset(true), SendState; an
   error ends the session *)
SessionStart ==
    \E start \in CallAnswers, movetime \in {0, 250}, fen \in CallAnswers :
        /\ session_pc = "start"
        /\ movetimeMs' = movetime
        /\ IF start.err
           THEN /\ session_pc' = "closed"
                /\ session_err' = TRUE
                /\ UNCHANGED <<session_moves, playerIsWhite, session_over>>
           ELSE \E left \in ResetLeaves(TRUE) :
                   /\ session_moves' = left.moves
                   /\ playerIsWhite' = TRUE
                   /\ session_over' = left.over
                   /\ session_err' = (left.err \/ fen.err)
                   /\ session_pc' = IF left.err \/ fen.err THEN "closed" ELSE "waiting"
        /\ UNCHANGED <<session_msg, session_count>>

Received(type, uci, legal) ==
    /\ session_pc = "waiting"
    /\ session_count < MaxSessionMessages
    /\ session_count' = session_count + 1
    /\ session_msg' = [type |-> type, uci |-> uci, legal |-> legal, before |-> session_moves]

(* the message "new", lines 551-558 *)
MessageNew ==
    \E color \in ColorInputs :
        \E left \in ResetLeaves(parsePlayerColor(color, playerIsWhite)) :
            /\ Received("new", <<>>, {})
            /\ playerIsWhite' = parsePlayerColor(color, playerIsWhite)
            /\ session_moves' = left.moves
            /\ session_over' = left.over
            /\ session_err' = left.err
            /\ UNCHANGED <<session_pc, movetimeMs>>

(* the message "movetime", lines 559-567 *)
MessageMovetime ==
    \E value \in MovetimeInputs :
        /\ Received("movetime", <<>>, {})
        /\ movetimeMs' = ClampMovetime(value)
        /\ session_err' = FALSE
        /\ UNCHANGED <<session_pc, session_moves, playerIsWhite, session_over>>

(* the message "move", lines 568-630 *)
MessageMove ==
    \E text \in SessionUciInputs, legal_moves \in LegalAnswers(session_over) :
        \E left \in MoveLeaves(session_moves, TrimSpace(text), legal_moves, session_over) :
            /\ Received("move", TrimSpace(text),
                        IF legal_moves.err THEN {} ELSE legal_moves.list)
            /\ session_moves' = left.moves
            /\ session_over' = left.over
            /\ session_err' = left.err
            /\ UNCHANGED <<session_pc, playerIsWhite, movetimeMs>>

(* a payload that is not JSON, or an unknown type: lines 546-549, 631-632 *)
MessageUnknown ==
    /\ Received("unknown", <<>>, {})
    /\ session_err' = TRUE
    /\ UNCHANGED <<session_pc, session_moves, playerIsWhite, movetimeMs, session_over>>

(* ws.ReadMessage fails, lines 542-545 *)
ConnectionLost ==
    /\ session_pc = "waiting"
    /\ session_pc' = "closed"
    /\ UNCHANGED <<session_moves, playerIsWhite, movetimeMs, session_over, session_err,
                   session_msg, session_count>>

SessionNext ==
    \/ SessionStart
    \/ MessageNew
    \/ MessageMovetime
    \/ MessageMove
    \/ MessageUnknown
    \/ ConnectionLost

PosNext ==
    \/ CallClear
    \/ CallSetStartPosition
    \/ CallLoadFen
    \/ CallGenerateLegalMoves
    \/ CallMakeMove
    \/ CallUndoMove

EditNext ==
    \/ CallRebuildBitboards
    \/ CallPlacePiece
    \/ CallRemovePiece
    \/ CallMovePiece

vars == <<posVars, tableVars, searchVars, uciVars, scoreVars, fenVars, perftVars, orderVars, seqVars, nullVars, nodeVars, treeVars, sessionVars>>

Init == PosInit /\ TableIdle /\ SearchIdle /\ UciIdle /\ ScoreIdle /\ FenIdle /\ PerftIdle /\ OrderIdle /\ SeqIdle /\ NullIdle /\ NodeIdle /\ TreeIdle /\ SessionIdle

Next == PosNext /\ UNCHANGED <<tableVars, searchVars, uciVars, scoreVars, fenVars, perftVars, orderVars, seqVars, nullVars, nodeVars, treeVars, sessionVars>>

Spec == Init /\ [][Next]_vars

NextEdit == (PosNext \/ EditNext) /\ UNCHANGED <<tableVars, searchVars, uciVars, scoreVars, fenVars, perftVars, orderVars, seqVars, nullVars, nodeVars, treeVars, sessionVars>>

SpecEdit == Init /\ [][NextEdit]_vars

InitTable == PosInit /\ TableInit /\ SearchIdle /\ UciIdle /\ ScoreIdle /\ FenIdle /\ PerftIdle /\ OrderIdle /\ SeqIdle /\ NullIdle /\ NodeIdle /\ TreeIdle /\ SessionIdle

NextTable == TableNext /\ UNCHANGED <<posVars, searchVars, uciVars, scoreVars, fenVars, perftVars, orderVars, seqVars, nullVars, nodeVars, treeVars, sessionVars>>

SpecTable == InitTable /\ [][NextTable]_vars

InitSearch == PosInit /\ TableIdle /\ SearchInit /\ UciIdle /\ ScoreIdle /\ FenIdle /\ PerftIdle /\ OrderIdle /\ SeqIdle /\ NullIdle /\ NodeIdle /\ TreeIdle /\ SessionIdle

NextSearch == SearchNext /\ UNCHANGED <<posVars, tableVars, uciVars, scoreVars, fenVars, perftVars, orderVars, seqVars, nullVars, nodeVars, treeVars, sessionVars>>

SpecSearch == InitSearch /\ [][NextSearch]_vars

(* every thread of the search that can take a step is scheduled in the end;
   nothing makes the caller set the flag or the clock reach the deadline *)
SearchFairness ==
    /\ WF_searchVars(CallerSteps)
    /\ \A t \in SearchThreads : WF_searchVars(WorkerSteps(t))

(* the searches a stop can end: limits.stop or a time limit is given; with
   limits.infinite the depth limit is not read, so one value of it is taken *)
InitSearchFair ==
    /\ InitSearch
    /\ HasStopPtr
    /\ limits.infinite => limits.max_depth = 0

SpecSearchFair == InitSearchFair /\ [][NextSearch]_vars /\ SearchFairness

InitUci == PosInit /\ TableIdle /\ SearchIdle /\ UciIdle /\ ScoreIdle /\ FenIdle /\ PerftIdle /\ OrderIdle /\ SeqIdle /\ NullIdle /\ NodeIdle /\ TreeIdle /\ SessionIdle

NextUci == UciNext /\ UNCHANGED <<tableVars, searchVars, scoreVars, fenVars, perftVars, orderVars, seqVars, nullVars, nodeVars, treeVars, sessionVars>>

SpecUci == InitUci /\ [][NextUci]_vars

InitScore == PosInit /\ TableIdle /\ SearchIdle /\ UciIdle /\ ScoreInit /\ FenIdle /\ PerftIdle /\ OrderIdle /\ SeqIdle /\ NullIdle /\ NodeIdle /\ TreeIdle /\ SessionIdle

NextScore == ScoreNext /\ UNCHANGED <<posVars, tableVars, searchVars, uciVars, fenVars, perftVars, orderVars, seqVars, nullVars, nodeVars, treeVars, sessionVars>>

SpecScore == InitScore /\ [][NextScore]_vars

FenNext ==
    \/ (PosNext \/ CallLoadFenClocks) /\ fen_out' = <<>> /\ reloaded' = NotReloaded
    \/ CallToFen

NextFen == FenNext /\ UNCHANGED <<tableVars, searchVars, uciVars, scoreVars, perftVars, orderVars, seqVars, nullVars, nodeVars, treeVars, sessionVars>>

SpecFen == Init /\ [][NextFen]_vars

NextPerft ==
    PerftNext /\ UNCHANGED <<tableVars, searchVars, uciVars, scoreVars, fenVars, orderVars, seqVars, nullVars, nodeVars, treeVars, sessionVars>>

SpecPerft == Init /\ [][NextPerft]_vars

NextOrder ==
    /\ OrderNext
    /\ UNCHANGED <<posVars, tableVars, searchVars, uciVars, scoreVars, fenVars, perftVars,
                   seqVars, nullVars, nodeVars, treeVars, sessionVars>>

SpecOrder == Init /\ [][NextOrder]_vars

NextSeq ==
    /\ SeqNext
    /\ UNCHANGED <<posVars, searchVars, uciVars, scoreVars, fenVars, perftVars, orderVars,
                   nullVars, nodeVars, treeVars, sessionVars>>

SpecSeq == InitTable /\ [][NextSeq]_vars

(* moves are made and undone between null moves only while no null move is
   pending *)
NextNull ==
    /\ \/ PosNext /\ null_states = <<>> /\ UNCHANGED nullVars
       \/ NullNext
    /\ UNCHANGED <<tableVars, searchVars, uciVars, scoreVars, fenVars, perftVars, orderVars,
                   seqVars, nodeVars, treeVars, sessionVars>>

SpecNull == Init /\ [][NextNull]_vars

NextNode ==
    /\ NodeNext
    /\ UNCHANGED <<posVars, tableVars, searchVars, uciVars, scoreVars, fenVars, perftVars,
                   orderVars, seqVars, nullVars, treeVars, sessionVars>>

SpecNode == Init /\ [][NextNode]_vars

NextTree ==
    /\ TreeNext
    /\ UNCHANGED <<tableVars, searchVars, uciVars, scoreVars, fenVars, perftVars, orderVars,
                   seqVars, nullVars, nodeVars, sessionVars>>

SpecTree == Init /\ [][NextTree]_vars

NextSession ==
    /\ SessionNext
    /\ UNCHANGED <<posVars, tableVars, searchVars, uciVars, scoreVars, fenVars, perftVars,
                   orderVars, seqVars, nullVars, nodeVars, treeVars>>

SpecSession == Init /\ [][NextSession]_vars

(* C3: under any interleaving of Store and Probe calls of several threads on
   one entry, a Probe(k) that reports a hit returns the best_move, score,
   depth and bound given to one single Store call made with the key k. *)
C3_ProbeReturnsOneStore ==
    \A t \in TableThreads :
        probe_result[t].hit =>
            \E call \in store_log :
                /\ call.key = probe_result[t].entry.key
                /\ call = probe_result[t].entry

(***************************************************************************)
(* Properties of the position, move generation and FEN loading             *)
(***************************************************************************)

(* the position descends from SetStartPosition or a successful LoadFen by
   moves of GenerateLegalMoves only *)
Rooted == origin = "SetStartPosition" \/ (origin = "LoadFen" /\ ok)

Kings(p, color) == { s \in Squares : p.board[s] = MakePiece(color, kKing) }

OneKingPerColour(p) == \A c \in Colors : Cardinality(Kings(p, c)) = 1

(* C1: for a position p reached from SetStartPosition or a successful LoadFen
   by legal moves and every move m of GenerateLegalMoves(p), MakeMove(p, m, s)
   followed by UndoMove(p, m, s) gives p back in every field, hash included.
   Here p is the position GenerateLegalMoves was called on and moves is the
   list it returned. *)
C1_MakeUndoRestores ==
    (op = "GenerateLegalMoves" /\ Rooted) =>
        \A i \in 1 .. Len(moves) :
            LET made == MakeMove(prev, moves[i])
            IN UndoMove(made.pos, moves[i], made.state) = prev

(* the moves the claim C2 describes: the pseudo-legal moves of p that capture
   no king and leave the mover's king unattacked, in generation order *)
KingSafeMoves(p) ==
    SelectSeq(GeneratePseudoLegalMoves(p),
              LAMBDA m : /\ CapturedPiece(m) # kKing
                         /\ KingSafeAfter(MakeMove(p, m).pos, p.side_to_move))

(* C2: for a position p with one king per colour, GenerateLegalMoves(p)
   returns exactly the pseudo-legal moves of the side to move that capture no
   king and after which the mover's king is not attacked. *)
C2_LegalMovesExact ==
    (op = "GenerateLegalMoves" /\ Rooted /\ OneKingPerColour(prev)) =>
        moves = KingSafeMoves(prev)

(* the Zobrist XOR of the fields of p; the keys are pairwise distinct, so the
   XOR of the ones present is their set *)
ExpectedHash(p) ==
    { ZobristPieceSquare(p.board[s], s) : s \in { q \in Squares : p.board[q] # kNone } }
    \cup { ZobristCastling(p.castling_rights) }
    \cup (IF p.en_passant_square # kNoSquare
          THEN { ZobristEnPassant(FileOf(p.en_passant_square)) } ELSE {})
    \cup (IF p.side_to_move = kBlack THEN { ZobristSideToMove } ELSE {})

MutatingOps ==
    { "Clear", "SetStartPosition", "RebuildBitboards", "PlacePiece", "RemovePiece",
      "MovePiece", "MakeMove", "UndoMove" }

(* C6: after Clear, SetStartPosition, a successful LoadFen, RebuildBitboards,
   PlacePiece, RemovePiece, MovePiece, MakeMove and UndoMove the stored hash
   equals the Zobrist XOR recomputed from the current fields. *)
C6_HashMatchesFields ==
    (op \in MutatingOps \/ (op = "LoadFen" /\ ok)) => position.hash = ExpectedHash(position)

(* C7: when LoadFen returns false the position is exactly what it was before
   the call. *)
C7_FailedLoadKeepsPosition ==
    (op = "LoadFen" /\ ~ok) => position = prev

(* the castling right bit is backed by the king and the rook on their home
   squares *)
RightBacked(p, right, king_square, king, rook_square, rook) ==
    HasRight(p.castling_rights, right) =>
        (p.board[king_square] = king /\ p.board[rook_square] = rook)

DataModelInvariants(p) ==
    /\ OneKingPerColour(p)
    /\ \/ p.en_passant_square = kNoSquare
       \/ RankOf(p.en_passant_square) = (IF p.side_to_move = kWhite THEN 5 ELSE 2)
    /\ RightBacked(p, kWhiteKingSideCastle, kE1, kWhiteKing, kH1, kWhiteRook)
    /\ RightBacked(p, kWhiteQueenSideCastle, kE1, kWhiteKing, kA1, kWhiteRook)
    /\ RightBacked(p, kBlackKingSideCastle, kE8, kBlackKing, kH8, kBlackRook)
    /\ RightBacked(p, kBlackQueenSideCastle, kE8, kBlackKing, kA8, kBlackRook)

(* C8: every FEN text LoadFen accepts yields a position with exactly one king
   per colour, an en-passant square that is NoSquare or on rank 6 (White to
   move) or rank 3 (Black to move), and every castling right backed by king
   and rook on their home squares. *)
C8_LoadedPositionValid ==
    (op = "LoadFen" /\ ok) => DataModelInvariants(position)

(* the conditions of a castle move m of the side to move in p, read off the
   board *)
CastleAllowed(p, m) ==
    LET us == p.side_to_move
        them == OppositeColor(us)
        home == IF us = kWhite THEN kE1 ELSE kE8
        to == ToSquare(m)
        king_side == FileOf(to) > FileOf(home)
        corner == MakeSquare(IF king_side THEN 7 ELSE 0, RankOf(home))
        right == IF us = kWhite
                 THEN (IF king_side THEN kWhiteKingSideCastle ELSE kWhiteQueenSideCastle)
                 ELSE (IF king_side THEN kBlackKingSideCastle ELSE kBlackQueenSideCastle)
        between == { s \in Squares : /\ RankOf(s) = RankOf(home)
                                     /\ \/ FileOf(corner) < FileOf(s) /\ FileOf(s) < FileOf(home)
                                        \/ FileOf(home) < FileOf(s) /\ FileOf(s) < FileOf(corner) }
        passed == MakeSquare((FileOf(home) + FileOf(to)) \div 2, RankOf(home))
    IN /\ FromSquare(m) = home
       /\ to \in { MakeSquare(6, RankOf(home)), MakeSquare(2, RankOf(home)) }
       /\ p.board[home] = MakePiece(us, kKing)
       /\ HasRight(p.castling_rights, right)
       /\ p.board[corner] = MakePiece(us, kRook)
       /\ \A s \in between : p.board[s] = kNone
       /\ ~IsSquareAttacked(p, home, them)
       /\ ~IsSquareAttacked(p, passed, them)
       /\ ~IsSquareAttacked(p, to, them)

CastleMovesOf(list) == { list[i] : i \in { j \in 1 .. Len(list) : MoveFlagOf(list[j]) = kFlagCastle } }

(* C9: a Castle move is in the generated list (pseudo-legal or legal) only if
   the king is on its home square, the castling right is set, the corner holds
   the mover's rook, the squares between are empty, the king is not in check
   and neither the square it passes nor the one it lands on is attacked. *)
C9_CastleOnlyWhenAllowed ==
    op = "GenerateLegalMoves" =>
        \A m \in CastleMovesOf(moves) \cup CastleMovesOf(GeneratePseudoLegalMoves(prev)) :
            CastleAllowed(prev, m)

C9_Witness ==
    /\ op = "GenerateLegalMoves"
    /\ prev.side_to_move = kWhite
    /\ HasRight(prev.castling_rights, kWhiteKingSideCastle)
    /\ \E m \in CastleMovesOf(moves) : ToSquare(m) = kG1

(* the enemy pawns that attack the square a double push from -> to passed *)
PassedSquareAttackers(p, to) ==
    { s \in Squares : /\ p.board[s] = MakePiece(OppositeColor(p.side_to_move), kPawn)
                      /\ RankOf(s) = RankOf(to)
                      /\ (FileOf(s) - FileOf(to)) \in {-1, 1} }

(* C10: after MakeMove(p, m) the en-passant square is the square the pawn
   passed over if m is a DoublePush and an enemy pawn attacks that square, and
   NoSquare otherwise; UndoMove restores the en-passant square the position
   had before the move. *)
C10_EnPassantSquare ==
    /\ op = "MakeMove" =>
           LET from == FromSquare(last_move)
               to == ToSquare(last_move)
               passed == MakeSquare(FileOf(from), (RankOf(from) + RankOf(to)) \div 2)
           IN position.en_passant_square =
                  (IF /\ MoveFlagOf(last_move) = kFlagDoublePush
                      /\ PassedSquareAttackers(prev, to) # {}
                   THEN passed ELSE kNoSquare)
    /\ op = "UndoMove" => position.en_passant_square = prev.en_passant_square

C10_Witness ==
    /\ op = "MakeMove"
    /\ MoveFlagOf(last_move) = kFlagDoublePush
    /\ position.en_passant_square # kNoSquare

(***************************************************************************)
(* Properties of the search control                                        *)
(***************************************************************************)

(* C4: Search returns best_move = NoMove if and only if the root position has
   no legal moves, whatever the depth cap, the time limit, infinite and the
   moment the stop flag is set. *)
C4_NoMoveIffNoLegalMoves ==
    search_pc = "done" => (search_return.best_move = kNoMove <=> root_moves = 0)

(* the depths before the last logged one that ended with the flag clear *)
CompletedBefore == { i \in 1 .. Len(depth_log) - 1 : depth_log[i].clear }

Last(set) == CHOOSE i \in set : \A j \in set : j <= i

(* C5: when Search finds the stop flag set after SearchRoot(d) returned, it
   returns the result of the last earlier depth that ended with the flag
   clear, and the result of the cancelled depth d only if there is none. *)
C5_CancelledDepthNotPromoted ==
    (search_pc = "done" /\ found_set) =>
        search_return = (IF CompletedBefore # {}
                         THEN depth_log[Last(CompletedBefore)].result
                         ELSE depth_log[Len(depth_log)].result)

C5_Witness ==
    /\ search_pc = "done"
    /\ found_set
    /\ CompletedBefore # {}
    /\ search_return.depth = 1
    /\ depth_log[Len(depth_log)].result.best_move # kNoMove


(* the indices of the moves of list that a pawn makes from -> to *)
PawnMoveIndices(list, from, to) ==
    { i \in 1 .. Len(list) : /\ MovedPiece(list[i]) = kPawn
                             /\ FromSquare(list[i]) = from
                             /\ ToSquare(list[i]) = to }

LastRank(color) == IF color = kWhite THEN kRankCount - 1 ELSE 0

(* what the generated list must hold for the pawn moves of the side to move
   in p: four Promotion moves, one per piece, and nothing else for a from/to
   pair on the last rank; no Promotion move for any other pair *)
PromotionsExact(p, list) ==
    \A i \in 1 .. Len(list) :
        MovedPiece(list[i]) = kPawn =>
            LET same == PawnMoveIndices(list, FromSquare(list[i]), ToSquare(list[i]))
            IN IF RankOf(ToSquare(list[i])) = LastRank(p.side_to_move)
               THEN /\ Cardinality(same) = 4
                    /\ \A j \in same : MoveFlagOf(list[j]) = kFlagPromotion
                    /\ { PromotionPiece(list[j]) : j \in same } = {kQueen, kRook, kBishop, kKnight}
               ELSE MoveFlagOf(list[i]) # kFlagPromotion

(* C11: every pawn move of the side to move that lands on the last rank is
   emitted as exactly four Promotion moves (Queen, Rook, Bishop, Knight) and
   as no other move, and no pawn move that lands elsewhere is a Promotion;
   in the pseudo-legal list and in the legal list. *)
C11_PromotionsExact ==
    op = "GenerateLegalMoves" =>
        /\ PromotionsExact(prev, GeneratePseudoLegalMoves(prev))
        /\ PromotionsExact(prev, moves)


CastlingRightBits == {kWhiteKingSideCastle, kWhiteQueenSideCastle, kBlackKingSideCastle, kBlackQueenSideCastle}

RightKingSquare(right) == IF right \in {kWhiteKingSideCastle, kWhiteQueenSideCastle} THEN kE1 ELSE kE8

RightRookSquare(right) ==
    CASE right = kWhiteKingSideCastle -> kH1
      [] right = kWhiteQueenSideCastle -> kA1
      [] right = kBlackKingSideCastle -> kH8
      [] right = kBlackQueenSideCastle -> kA8

RightColor(right) == IF right \in {kWhiteKingSideCastle, kWhiteQueenSideCastle} THEN kWhite ELSE kBlack

(* every set castling right has its king and its rook on their home squares *)
RightsBacked(p) ==
    \A right \in CastlingRightBits :
        RightBacked(p, right, RightKingSquare(right), MakePiece(RightColor(right), kKing),
                    RightRookSquare(right), MakePiece(RightColor(right), kRook))

(* C12: MakeMove of a legal move on a position whose castling rights are
   backed by king and rook leaves them backed: a right stays exactly when it
   was set and the move neither starts on the king's or that rook's home
   square nor lands on that rook's corner (king moved, rook left, rook
   captured); no right is gained; UndoMove gives the former rights back.
   The start position has all four rights backed, so the rights of every
   position played from it are backed. *)
C12_CastlingRightsBacked ==
    /\ (op = "SetStartPosition") => RightsBacked(position)
    /\ (op = "MakeMove" /\ Rooted /\ RightsBacked(prev)) =>
           /\ RightsBacked(position)
           /\ \A right \in CastlingRightBits :
                  HasRight(position.castling_rights, right) <=>
                      /\ HasRight(prev.castling_rights, right)
                      /\ FromSquare(last_move) \notin {RightKingSquare(right), RightRookSquare(right)}
                      /\ ToSquare(last_move) # RightRookSquare(right)
    /\ (op = "UndoMove" /\ Rooted) => position.castling_rights = prev.castling_rights

C12_Witness ==
    /\ op = "MakeMove"
    /\ Rooted
    /\ RightsBacked(prev)
    /\ HasRight(prev.castling_rights, kBlackQueenSideCastle)
    /\ MovedPiece(last_move) = kRook
    /\ CapturedPiece(last_move) = kRook
    /\ ToSquare(last_move) = kA8
    /\ position.castling_rights = 0


(* board and bitboards say the same: square s holds piece (c, t) iff bit s is
   set in piece_bb[c][t], each colour's occupancy is the union of its piece
   bitboards and the whole occupancy the union of both colours *)
BoardAgrees(p) ==
    /\ \A c \in Colors : \A t \in PieceTypes \ {kNone} : \A s \in Squares :
           (p.board[s] = MakePiece(c, t)) <=> HasBit(p.piece_bb[c][t], s)
    /\ \A c \in Colors :
           p.occupancy_bb[c] = UNION { p.piece_bb[c][t] : t \in PieceTypes \ {kNone} }
    /\ p.all_occupancy_bb = p.occupancy_bb[kWhite] \cup p.occupancy_bb[kBlack]

(* C13: in every position reached from SetStartPosition or a successful
   LoadFen by MakeMove of legal moves and UndoMove, board and bitboards agree
   and each colour has exactly one king. *)
C13_BoardAndBitboardsAgree ==
    Rooted => (BoardAgrees(position) /\ OneKingPerColour(position))


(* the entry of key k holds k *)
SlotHolds(k) ==
    IF table_impl = "atomic" THEN table_key[EntryIndex(k)] = k
    ELSE table_entry[EntryIndex(k)].key = k

(* the depth stored in the entry of key k *)
StoredDepth(k) ==
    IF table_impl = "atomic" THEN UnpackDepth(table_data[EntryIndex(k)])
    ELSE table_entry[EntryIndex(k)].depth

(* C14: Store replaces an entry of another key always and an entry of its own
   key only with a depth greater than or equal to the stored one; hence, as
   long as every Store call made carries the same key k, the depth stored
   for k never decreases, whatever the interleaving of the calls. *)
C14_StoredDepthNeverDecreases ==
    [][\A k \in TableKeys :
           ((\A call \in store_log' : call.key = k) /\ SlotHolds(k) /\ SlotHolds(k)')
               => StoredDepth(k)' >= StoredDepth(k)]_vars


(***************************************************************************)
(* Properties of cancellation and of the root move loop                    *)
(***************************************************************************)

(* the search never resets the flag *)
FlagNeverReset == [][stop_flag => stop_flag']_vars

(* every AlphaBeta or Quiescence call entered with the flag set returned at
   its head, before GenerateLegalMoves *)
LateCallsCheap == \A e \in entry_log : e.stopped => e.cheap

(* a worker thread took a root move in this step *)
WorkerTookMove == \E h \in handed' \ handed : h.thread # 0

(* a stop test at the head of a root move loop that finds the flag set leaves
   the loop *)
StopTestLeaves ==
    /\ \A t \in SearchThreads :
           (worker[t].pc = "test" /\ Stopped) => worker'[t].pc # "fetch"
    /\ (search_pc = "moves" /\ Stopped) => search_pc' # "make"

(* the root moves thread t took in the current SearchRoot call with the flag
   already set *)
LateMoves(t) == { h \in handed : h.thread = t /\ h.late }

WorkersTerminated == \A t \in SearchThreads : worker[t].pc \in {"exit", "none"}

(* C15 as stated: once the flag is set no worker starts searching another
   root move, every AlphaBeta/Quiescence call entered afterwards returns
   without generating moves, every worker terminates, Search returns, and
   the flag is never reset. *)
C15_StopEndsSearch ==
    /\ [][Stopped => ~WorkerTookMove]_vars
    /\ [](LateCallsCheap)
    /\ (Stopped ~> WorkersTerminated)
    /\ (Stopped ~> (search_pc = "done"))
    /\ FlagNeverReset

(* C15, amended: once the flag is set every stop test of a root move loop
   leaves the loop, so a thread takes at most one more root move (the one
   whose stop test it passed before the flag was set); every AlphaBeta or
   Quiescence call entered afterwards returns without generating moves;
   every worker terminates, Search returns, and the flag is never reset. *)
C15_StopWindsDown ==
    /\ [][StopTestLeaves]_vars
    /\ [](\A t \in 0 .. MaxSearchThreads : Cardinality(LateMoves(t)) <= 1)
    /\ [](LateCallsCheap)
    /\ (Stopped ~> WorkersTerminated)
    /\ (Stopped ~> (search_pc = "done"))
    /\ FlagNeverReset

(* Search returned after a worker took a root move with the flag set and the
   AlphaBeta call for it returned at its head *)
C15_Witness ==
    /\ search_pc = "done"
    /\ Stopped
    /\ \E h \in handed : h.late /\ h.thread # 0
    /\ [stopped |-> TRUE, cheap |-> TRUE] \in entry_log


(* SearchRoot took the worker path and the flag was not set *)
WorkersUncancelled == root_moves > 0 /\ ~OneThread(threads, root_moves) /\ ~Stopped

RootMoveSet == 1 .. root_moves

HandedTo(move) == { h \in handed : h.move = move }

ReturnedFor(move) == { r \in returned : r.move = move }

(* C16: in SearchRoot on worker threads with no cancellation the shared
   index hands every root move to exactly one worker (none skipped, none
   searched twice, under every interleaving), and after the joins best_score
   is the maximum of the scores the root moves returned and best_move is a
   move that returned it. *)
C16_EveryRootMoveOnce ==
    /\ (search_pc = "workers" /\ WorkersUncancelled) =>
           \A m \in RootMoveSet : Cardinality(HandedTo(m)) <= 1
    /\ (search_pc = "returned" /\ WorkersUncancelled) =>
           /\ \A h \in handed : h.thread \in 1 .. threads /\ h.move \in RootMoveSet
           /\ \A m \in RootMoveSet :
                  /\ Cardinality(HandedTo(m)) = 1
                  /\ Cardinality(ReturnedFor(m)) = 1
           /\ \A r \in returned : r.move \in RootMoveSet /\ r.score <= best_score
           /\ \E r \in returned : r.move = best_move /\ r.score = best_score
           /\ result.best_move = best_move
           /\ result.score = best_score

(* two workers each searched one of two root moves and the second move,
   which scored higher, is the best move after the joins *)
C16_Witness ==
    /\ search_pc = "returned"
    /\ WorkersUncancelled
    /\ root_moves = 2
    /\ \E h1, h2 \in handed : h1.thread # h2.thread
    /\ [move |-> 1, score |-> -15] \in returned
    /\ [move |-> 2, score |-> 40] \in returned
    /\ best_move = 2


(* the worker threads that were created and not yet joined *)
LiveWorkers == { t \in SearchThreads : worker[t].pc # "none" }

(* C17: at every moment of Search the number of live worker threads created
   by the search is at most threads, and with threads = 1 (or fewer than two
   root moves) no worker thread is created and every root move is searched
   on the calling thread, one after the other. *)
C17_WorkersWithinThreads ==
    /\ Cardinality(LiveWorkers) <= threads
    /\ (threads = 1 \/ root_moves < 2) =>
           /\ LiveWorkers = {}
           /\ search_pc # "workers"
           /\ \A h \in handed : h.thread = 0
           /\ \A m \in RootMoveSet :
                  (m \in { h.move : h \in handed }) <=>
                      (m < next_index \/ (m = next_index /\ search_pc # "make"))
           /\ (search_pc = "returned" /\ ~Stopped) =>
                  { h.move : h \in handed } = RootMoveSet

(* with threads = 2 both workers are live and a root move was handed out *)
C17_Witness ==
    /\ threads = 2
    /\ Cardinality(LiveWorkers) = 2
    /\ \E h \in handed : h.thread # 0

(* with threads = 1 both root moves were searched on the calling thread *)
SequentialRootDone ==
    /\ threads = 1
    /\ root_moves = 2
    /\ search_pc = "returned"
    /\ handed = {[move |-> 1, thread |-> 0, late |-> FALSE],
                 [move |-> 2, thread |-> 0, late |-> FALSE]}


(***************************************************************************)
(* Properties of UCI moves, of mate scores and of FEN output               *)
(***************************************************************************)

(* the legal moves of position p whose UCI text is uci *)
UciMatches(p, uci) ==
    LET legal == GenerateLegalMoves(p).moves IN
    { legal[i] : i \in { j \in 1 .. Len(legal) : MoveToUci(legal[j]) = uci } }

(* C18: ApplyUciMove with a text that is not the UCI text of any legal move
   of the position returns false and leaves the whole Position as it was;
   with a text that is, it returns true and leaves the Position equal to
   MakeMove of that move. *)
C18_ApplyUciMove ==
    op = "ApplyUciMove" =>
        IF UciMatches(prev, last_uci) = {}
        THEN ~applied /\ position = prev
        ELSE applied /\ \E m \in UciMatches(prev, last_uci) : position = MakeMove(prev, m).pos


(* C19: the adjustment on probe undoes the adjustment on store: for every
   score s with |s| <= 30000 and every ply >= 0,
   ScoreFromTt(ScoreToTt(s, ply), ply) = s, where ScoreToTt adds ply to
   scores above 29000, subtracts ply from scores below -29000 and leaves
   the other scores as they are. *)
C19_MateScoreRoundTrip ==
    /\ score_pc \in {"stored", "probed"} =>
           tt_score = (IF score_in > 29000 THEN score_in + ply_in
                       ELSE IF score_in < -29000 THEN score_in - ply_in
                       ELSE score_in)
    /\ score_pc = "probed" => score_out = score_in

(* a mate score stored at ply 2 and taken back at ply 2 *)
C19_Witness ==
    /\ score_pc = "probed"
    /\ score_in = 29998
    /\ ply_in = 2
    /\ tt_score = 30000
    /\ score_out = 29998


(* the invariants of the data model hold in p *)
ValidPosition(p) ==
    /\ DataModelInvariants(p)
    /\ BoardAgrees(p)
    /\ p.hash = ExpectedHash(p)

(* C20: for every position p that satisfies the invariants of the data
   model, LoadFen(ToFen(p)) succeeds and gives a position with the same
   board, side to move, castling rights, en-passant square, halfmove clock
   and fullmove number, and so the same bitboards and hash. *)
C20_FenRoundTrip ==
    (fen_out # <<>> /\ ValidPosition(position)) =>
        /\ fen_out = ToFen(position)
        /\ reloaded.ok
        /\ reloaded.pos = position

(* the text of a position with an en-passant square, reached by a double
   pawn push, was loaded again *)
C20_Witness ==
    /\ fen_out # <<>>
    /\ ValidPosition(position)
    /\ op = "MakeMove"
    /\ position.en_passant_square # kNoSquare
    /\ reloaded.ok
    /\ reloaded.pos = position


(***************************************************************************)
(* Properties of Perft, of the clocks, of attacks and of the null move     *)
(***************************************************************************)

(* the number of sequences of d moves from p, each move a pseudo-legal move
   that captures no king and leaves the mover's king unattacked, made on a
   copy of the position *)
RECURSIVE LegalSequences(_, _)
RECURSIVE LegalSequencesFrom(_, _, _, _)
LegalSequencesFrom(p, legal, index, d) ==
    IF index > Len(legal) THEN 0
    ELSE LegalSequences(MakeMove(p, legal[index]).pos, d - 1)
             + LegalSequencesFrom(p, legal, index + 1, d)
LegalSequences(p, d) ==
    IF d = 0 THEN 1 ELSE LegalSequencesFrom(p, KingSafeMoves(p), 1, d)

StartPosition == SetStartPosition(NewPosition)

AllRightsPosition == LoadFen(NewPosition, FenAllRights).pos

(* the counts of the rules of chess for the two named positions *)
KnownCount(p, d) ==
    IF p = StartPosition
    THEN (CASE d = 0 -> 1 [] d = 1 -> 20 [] d = 2 -> 400 [] d = 3 -> 8902 [] OTHER -> -1)
    ELSE IF p = AllRightsPosition
    THEN (CASE d = 0 -> 1 [] d = 1 -> 26 [] d = 2 -> 568 [] OTHER -> -1)
    ELSE -1

(* C21: Perft(p, d) is the number of sequences of d consecutive legal moves
   from p (1 for d = 0; 20, 400 and 8902 from the start position for
   d = 1, 2, 3; 26 and 568 from the position with rooks, kings and all
   castling rights for d = 1, 2), and p is unchanged when Perft returns. *)
C21_PerftCountsLegalSequences ==
    (op = "Perft" /\ Rooted) =>
        /\ position = prev
        /\ perft_nodes = LegalSequences(prev, perft_depth)
        /\ KnownCount(prev, perft_depth) \in {-1, perft_nodes}


(* the EnPassant moves onto the en-passant square that GenerateLegalMoves
   returns for p and that leave the capturer's own king unattacked *)
LegalEnPassantCaptures(p) ==
    { i \in DOMAIN GenerateLegalMoves(p).moves :
        LET m == GenerateLegalMoves(p).moves[i] IN
        /\ MoveFlagOf(m) = kFlagEnPassant
        /\ ToSquare(m) = p.en_passant_square
        /\ KingSafeAfter(MakeMove(p, m).pos, p.side_to_move) }

(* C22: in every position produced by MakeMove the en-passant square differs
   from NoSquare only when a pawn of the side now to move can legally capture
   en passant onto it: the capture is among the moves of GenerateLegalMoves of
   the resulting position and leaves the capturer's king unattacked. *)
C22_EnPassantOnlyWhenCapturable ==
    (op = "MakeMove" /\ Rooted /\ position.en_passant_square # kNoSquare) =>
        LegalEnPassantCaptures(position) # {}


(* C23: once the stop flag is set the search makes no further
   TranspositionTable::Store call: no call in the log, from the end of an
   AlphaBeta node or from the end of SearchRoot, was made with the flag set. *)
C23_NoStoreAfterStop == \A call \in search_stores : ~call.late


(* C24: PlacePiece, RemovePiece and MovePiece, called with any arguments on a
   position whose board and bitboards agree, leave board, piece_bb,
   occupancy_bb and all_occupancy_bb in agreement. *)
C24_PrimitivesKeepAgreement ==
    (op \in {"PlacePiece", "RemovePiece", "MovePiece"} /\ BoardAgrees(prev)) =>
        BoardAgrees(position)


(* C25: in AlphaBeta, after OrderMoves(moves, tt_move, context, ply), a
   tt_move that is one of the moves is the first of the list, whatever the
   killers and the history of the context. *)
C25_TtMoveFirst ==
    (order_calls > 0 /\ \E i \in DOMAIN order_in : order_in[i] = order_tt) =>
        ordered[1] = order_tt


(* no Store was called since the last Clear, or since the table was made *)
NoStoreSinceClear ==
    \A i \in DOMAIN seq_log : seq_log[i].name = "Store" =>
        \E j \in i + 1 .. Len(seq_log) : seq_log[j].name = "Clear"

(* C26: after Clear, applied once or several times, and until a Store is
   performed, Probe(k, entry) reports a miss for every key k, 0 included. *)
C26_ProbeMissesAfterClear ==
    (seq_call.name = "Probe" /\ NoStoreSinceClear /\ \E i \in DOMAIN seq_log : seq_log[i].name = "Clear")
        => ~probe_result[1].hit


(* C27: after MakeMove(p, m) the side to move is the other colour; the
   halfmove clock is 0 if the piece m moves is a pawn or a piece stood on the
   target square (or m is an en-passant capture) and p's clock + 1 as a 16-bit
   unsigned value otherwise; the fullmove number is p's number + 1, in the same 16-bit type,
   if Black made the move and p's number if White made it. *)
C27_ClocksAfterMakeMove ==
    op = "MakeMove" =>
        LET from == FromSquare(last_move)
            to == ToSquare(last_move)
            pawn_moved == MovedPiece(last_move) = kPawn
            captured == prev.board[to] # 0 \/ MoveFlagOf(last_move) = kFlagEnPassant
        IN /\ position.side_to_move = OppositeColor(prev.side_to_move)
           /\ position.halfmove_clock =
                  (IF pawn_moved \/ captured THEN 0 ELSE (prev.halfmove_clock + 1) % 65536)
           /\ position.fullmove_number =
                  (IF prev.side_to_move = kBlack THEN (prev.fullmove_number + 1) % 65536
                   ELSE prev.fullmove_number)

(* Black captured with a piece that is not a pawn, on a clock that was not 0 *)
C27_Witness ==
    /\ op = "MakeMove"
    /\ prev.side_to_move = kBlack
    /\ MovedPiece(last_move) # kPawn
    /\ prev.board[ToSquare(last_move)] # 0
    /\ prev.halfmove_clock = 1
    /\ position.halfmove_clock = 0
    /\ position.fullmove_number = prev.fullmove_number + 1


Abs(n) == IF n < 0 THEN 0 - n ELSE n

(* the squares strictly between from and to on a common line *)
SquaresBetween(from, to) ==
    LET df == FileOf(to) - FileOf(from)
        dr == RankOf(to) - RankOf(from)
        steps == IF Abs(df) > Abs(dr) THEN Abs(df) ELSE Abs(dr)
    IN { MakeSquare(FileOf(from) + (df \div steps) * k, RankOf(from) + (dr \div steps) * k) :
           k \in 1 .. steps - 1 }

(* by the rules of chess the piece on square from, read from the board of p,
   attacks square to *)
PieceAttacks(p, from, to) ==
    LET piece == p.board[from]
        type == PieceTypeFromPiece(piece)
        df == FileOf(to) - FileOf(from)
        dr == RankOf(to) - RankOf(from)
        clear == \A s \in SquaresBetween(from, to) : p.board[s] = 0
        diagonal == Abs(df) = Abs(dr) /\ df # 0
        straight == (df = 0) # (dr = 0)
    IN /\ piece # 0
       /\ from # to
       /\ CASE type = kPawn ->
                 Abs(df) = 1 /\ dr = (IF ColorFromPiece(piece) = kWhite THEN 1 ELSE -1)
            [] type = kKnight -> {Abs(df), Abs(dr)} = {1, 2}
            [] type = kKing -> Abs(df) <= 1 /\ Abs(dr) <= 1
            [] type = kBishop -> diagonal /\ clear
            [] type = kRook -> straight /\ clear
            [] type = kQueen -> (diagonal \/ straight) /\ clear
            [] OTHER -> FALSE

(* some piece of colour c on the board of p attacks sq *)
AttackedOnBoard(p, sq, c) ==
    \E from \in Squares :
        /\ p.board[from] # 0
        /\ ColorFromPiece(p.board[from]) = c
        /\ PieceAttacks(p, from, sq)

(* C28: for every position, square sq and colour c, IsSquareAttacked(position,
   sq, c) is true exactly if some piece of colour c on the board attacks sq:
   a pawn diagonally behind sq, a knight a knight-step away, an adjacent
   king, or a bishop, rook or queen on a line to sq with nothing between. *)
C28_AttackedIffPieceAttacks ==
    \A sq \in Squares : \A c \in Colors :
        IsSquareAttacked(position, sq, c) <=> AttackedOnBoard(position, sq, c)


(* C29: the null move is its own inverse: MakeNullMove applied twice in
   succession to a position p gives p back, with its side to move, its
   en-passant square and its hash. *)
C29_NullMoveTwiceRestores ==
    (op = "MakeNullMove" /\ Len(null_states) = 2) => position = null_states[1].from


(* the call before the last one *)
CallBefore == seq_log[Len(seq_log) - 1]

(* the last call is a Probe of the key that the call before it stored, and
   that Store wrote the entry *)
ProbeAfterStore ==
    /\ Len(seq_log) >= 2
    /\ seq_call.name = "Probe"
    /\ CallBefore.name = "Store"
    /\ CallBefore.wrote
    /\ CallBefore.key = seq_call.key

(* C30: with no concurrent writer, Probe(k) right after a Store(k, depth,
   score, bound, move) that wrote the entry returns the stored move, score,
   depth and bound, for scores in -32768..32767, depths in 0..254, the three
   bounds and every move. *)
C30_ProbeReturnsStored ==
    ProbeAfterStore =>
        /\ probe_result[1].hit
        /\ probe_result[1].entry =
               [key |-> CallBefore.key, best_move |-> CallBefore.best_move,
                depth |-> CallBefore.depth, score |-> CallBefore.score,
                bound |-> CallBefore.bound]

(* the atomic table returned the lowest score and depth 0 with the largest move *)
C30_Witness ==
    /\ ProbeAfterStore
    /\ table_impl = "atomic"
    /\ probe_result[1].hit
    /\ probe_result[1].entry.score = -32768
    /\ probe_result[1].entry.depth = 0
    /\ probe_result[1].entry.best_move = 2147483647

(* ---------------------------------------------------------------------- *)
(* Killer moves and history counters of a SearchContext                    *)
(* ---------------------------------------------------------------------- *)
HistoryAt(ctx, at) == IF at \in DOMAIN ctx.history THEN ctx.history[at] ELSE 0

(* C31: in a context, the killer slots of a ply change only in an
   UpdateHistory call (the beta cut-off of AlphaBeta) with a move that is no
   capture, promotion or en-passant, and then the move becomes the primary
   killer and the old primary the secondary; the two killers of a ply are
   never the same real move; every history counter stays within
   0 .. kHistoryMax and changes only for the squares of such a move, to the
   old value plus depth * depth, capped; the killer table has plies
   0 .. kMaxPly - 1 only and the ply written is min(ply, kMaxPly - 1). *)
C31_KillersAndHistory ==
    [][ LET call == history_call'
            from_to == <<FromSquare(call.move), ToSquare(call.move)>>
            grown == HistoryAt(context, from_to) + call.depth * call.depth
        IN /\ context' # context =>
                  /\ history_calls' = history_calls + 1
                  /\ call.move # kNoMove
                  /\ CapturedPiece(call.move) = kNone
                  /\ PromotionPiece(call.move) = kNone
                  /\ MoveFlagOf(call.move) # kFlagEnPassant
           /\ DOMAIN context'.killers = 0 .. 63
           /\ \A i \in 0 .. 63 :
                  /\ context'.killers[i] # context.killers[i] =>
                         /\ i = (IF call.ply < 63 THEN call.ply ELSE 63)
                         /\ context'.killers[i] = <<call.move, context.killers[i][1]>>
                  /\ ~ ( /\ context'.killers[i][1] # kNoMove
                         /\ context'.killers[i][1] = context'.killers[i][2] )
           /\ \A at \in DOMAIN context'.history :
                  /\ context'.history[at] \in 0 .. 1000000
                  /\ context'.history[at] # HistoryAt(context, at) =>
                         /\ at = from_to
                         /\ context'.history[at] =
                                (IF grown < 1000000 THEN grown ELSE 1000000) ]_vars

(* the second quiet cut-off move at a ply beyond the table: it is the primary
   killer of ply 63, the earlier one the secondary, and its counter is capped *)
C31_Witness ==
    /\ history_call = [move |-> OrderQuiet, depth |-> 1000, ply |-> 70]
    /\ context.killers[63] = <<OrderQuiet, OrderQuietOther>>
    /\ HistoryAt(context, <<12, 20>>) = kHistoryMax
    /\ HistoryAt(context, <<6, 21>>) = 1
(* ---------------------------------------------------------------------- *)
(* The striped mutexes of the table                                        *)
(* ---------------------------------------------------------------------- *)
(* RunUciLoop at "ucinewgame": Clear() from the thread that reads the
   commands.  Search has returned and joined its threads, so no thread is in
   Probe or Store; Clear takes no mutex. *)
TableClear ==
    /\ table_ops < MaxTableOps
    /\ \A t \in TableThreads : caller[t].pc = "idle"
    /\ table_entry' = [e \in 0 .. kEntryCount - 1 |-> DefaultEntry]
    /\ table_ops' = table_ops + 1
    /\ UNCHANGED <<table_impl, table_key, table_data, table_lock, caller, probe_result,
                   store_log>>

InitStripe == InitTable /\ table_impl = "mutex"

StripeNext ==
    \/ \E t \in TableThreads :
          \/ CallProbe(t)
          \/ CallStore(t)
          \/ AcquireLock(t)
          \/ LockedProbe(t)
          \/ LockedStore(t)
    \/ TableClear

NextStripe ==
    /\ StripeNext
    /\ UNCHANGED <<posVars, searchVars, uciVars, scoreVars, fenVars, perftVars, orderVars,
                   seqVars, nullVars, nodeVars, treeVars, sessionVars>>

SpecStripe == InitStripe /\ [][NextStripe]_vars

(* the thread is in the body of Probe or Store on this entry *)
InBody(t, e) ==
    /\ caller[t].pc \in {"probe_locked", "store_locked"}
    /\ EntryIndex(caller[t].key) = e

(* keys of one entry select one mutex, and a thread in the body of Probe or
   Store holds the mutex of the entry, which is the mutex every key of the
   entry selects *)
OneMutexPerEntry ==
    /\ \A k1, k2 \in TableKeys :
           EntryIndex(k1) = EntryIndex(k2) => LockIndex(k1) = LockIndex(k2)
    /\ \A t \in TableThreads, e \in 0 .. kEntryCount - 1 :
           InBody(t, e) => table_lock[LockIndex(e)] = t
    /\ \A t1, t2 \in TableThreads, e \in 0 .. kEntryCount - 1 :
           InBody(t1, e) /\ InBody(t2, e) => t1 = t2

(* C36 as stated: keys of one entry select one mutex, and every read and
   every write of an entry is made by a thread that holds that mutex. *)
C36_EveryAccessUnderTheMutex ==
    [][ /\ OneMutexPerEntry
        /\ \A e \in 0 .. kEntryCount - 1 :
               table_entry'[e] # table_entry[e] =>
                   \E t \in TableThreads : InBody(t, e) /\ table_lock[LockIndex(e)] = t ]_vars

(* C36, amended: keys of one entry select one mutex; every read and write of
   an entry by Probe and Store is made while the thread holds that mutex, so
   two threads are never in Probe or Store on one entry at a time; the only
   other write, Clear, holds no mutex and runs while no thread is in Probe or
   Store. *)
C36_ProbeAndStoreUnderTheMutex ==
    [][ /\ OneMutexPerEntry
        /\ \A e \in 0 .. kEntryCount - 1 :
               table_entry'[e] # table_entry[e] =>
                   \/ \E t \in TableThreads : InBody(t, e) /\ table_lock[LockIndex(e)] = t
                   \/ /\ \A t \in TableThreads : caller[t].pc = "idle"
                      /\ \A l \in 0 .. kLockCount - 1 : table_lock[l] = 0 ]_vars

(* a thread is in the body of Store with key 5 on the entry that holds key 1,
   while the other thread waits for the same mutex with key 1 *)
C36_Witness ==
    \E t1, t2 \in TableThreads :
        /\ caller[t1].pc = "store_locked" /\ caller[t1].key = 5
        /\ table_entry[EntryIndex(5)].key = 1
        /\ caller[t2].pc \in {"probe_lock", "store_lock"} /\ caller[t2].key = 1
        /\ table_lock[LockIndex(1)] = t1
(* ---------------------------------------------------------------------- *)
(* The entry an AlphaBeta node stores                                      *)
(* ---------------------------------------------------------------------- *)
(* C34: the entry a node stores is classified against the window of the
   call, whatever the probe made of alpha and beta: Upper when best_score is
   at most the alpha of the call, Lower when it is at least the beta of the
   call, Exact when it is strictly between them; its depth is the depth of
   the call and its score is best_score moved by the ply when it is a mate
   score. *)
C34_StoredBoundAgainstCallWindow ==
    (ab_pc = "returned" /\ ab_store # NoNodeStore) =>
        /\ ab_store.bound \in {kBoundUpper, kBoundLower, kBoundExact}
        /\ ab_store.bound = kBoundUpper <=> ab_best_score <= ab_in.alpha
        /\ ab_store.bound = kBoundLower <=> ab_best_score >= ab_in.beta
        /\ ab_store.bound = kBoundExact <=>
               (ab_in.alpha < ab_best_score /\ ab_best_score < ab_in.beta)
        /\ ab_store.depth = ab_in.depth
        /\ ab_store.score = (IF ab_best_score > 29000 THEN ab_best_score + ab_in.ply
                             ELSE IF ab_best_score < -29000 THEN ab_best_score - ab_in.ply
                             ELSE ab_best_score)
        /\ ab_return = ab_best_score

(* an entry stored as Exact although the probe had raised alpha above the
   best score of the node *)
C34_Witness ==
    /\ ab_pc = "returned"
    /\ ab_store # NoNodeStore
    /\ ab_store.bound = kBoundExact
    /\ ab_in.alpha < ab_best_score
    /\ ab_best_score < ab_alpha
(* ---------------------------------------------------------------------- *)
(* Scores of root moves whose search was cancelled                         *)
(* ---------------------------------------------------------------------- *)
(* C33: a call of AlphaBeta or Quiescence that returns on cancellation
   leaves the flag set, the flag stays set, and a thread whose AlphaBeta call
   for a root move returns with the flag set, or returned at its head on
   cancellation, leaves best_score and best_move as they were and compares
   nothing: the calling thread in the one-thread loop and every worker
   thread, wherever the flag is set between the steps. *)
C33_CancelledScoreDiscarded ==
    [][ /\ \A e \in entry_log' \ entry_log : e.cheap => stop_flag'
        /\ stop_flag => stop_flag'
        /\ ( /\ search_pc = "alphabeta"
              /\ search_pc' # "alphabeta"
              /\ (stop_flag \/ root_mode = "cheap") )
               => UNCHANGED <<best_score, best_move, returned>>
        /\ \A t \in SearchThreads :
               ( /\ worker[t].pc = "alphabeta"
                 /\ worker'[t].pc # "alphabeta"
                 /\ (stop_flag \/ worker[t].mode = "cheap") )
                  => UNCHANGED <<best_score, best_move, returned>> ]_vars

(* a worker took a root move with the flag clear, the flag was set while
   its AlphaBeta call ran, and the worker left its loop without a comparison
   for that move, while the score of another root move had been compared *)
C33_Witness ==
    \E h \in handed :
        /\ h.thread # 0
        /\ ~h.late
        /\ stop_flag
        /\ worker[h.thread].pc = "exit"
        /\ returned # {}
        /\ \A r \in returned : r.move # h.move
(* ---------------------------------------------------------------------- *)
(* The Position given to Search                                            *)
(* ---------------------------------------------------------------------- *)
(* C32: when Search returns, the caller's Position is the one passed in:
   board, bitboards, side to move, castling rights, en-passant square,
   clocks and hash; with worker threads the caller's Position does not
   change between their start and their joins. *)
C32_SearchRestoresPosition ==
    /\ tr_pc = "returned" => position = tr_given
    /\ tr_pc = "workers" =>
           \E gen \in {GenerateLegalMoves(tr_given)} : position = gen.pos
(* ---------------------------------------------------------------------- *)
(* The move list of a web session                                          *)
(* ---------------------------------------------------------------------- *)
(* C35: whenever the server waits for a message and the game is not over,
   the side to move by the parity of the recorded move list is the player's
   colour, also after a reply that reported a failed engine call; and a move
   message whose move is not in the list LegalMoves returned leaves the
   recorded move list as it was. *)
C35_PlayerToMoveWhileWaiting ==
    /\ (session_pc = "waiting" /\ ~session_over) =>
           ((Len(session_moves) % 2 = 0) <=> playerIsWhite)
    /\ (session_msg.type = "move" /\ session_msg.uci \notin session_msg.legal) =>
           session_moves = session_msg.before
====
